---- MODULE Spec2Model ----
(***************************************************************************)
(* The arbitrage execution saga of backend/server.py: the execute          *)
(* endpoint, its three variants (full transfer, simplified, simulated),    *)
(* the retry combinator and the three polling waiters.                     *)
(*                                                                         *)
(* Money is kept exact: prices are in cents, amounts in USDT, fee rates in *)
(* per mille.  Journal detail payloads are kept as the set of their keys.  *)
(* journal[e] is the part of db.transaction_logs appended by the request   *)
(* handled in slot e; no code of the saga ever reads the collection.       *)
(***************************************************************************)
EXTENDS Integers, Sequences, FiniteSets, TLC

\* ---------------------------------------------------------------- bounds
MaxRequests == 2      \* execute requests issued in one behaviour
MaxSlowPolls == 1     \* unsuccessful polls of one request that do not run into the timeout
MaxAttempts == 4      \* max_retries of a call of the retry combinator by itself
MaxEndpointCalls == 3  \* calls of the exchange and wallet endpoints in one behaviour

Execs == {1, 2}       \* request handlers that can be in flight together
Amounts == {0, 100}   \* usdt_amount values of the requests

\* ------------------------------------------------------ program constants
MIN_CONFIRMATIONS == 1
WITHDRAWAL_TIMEOUT == 1800
DEPOSIT_TIMEOUT == 1800
MAX_RETRIES == 3
INITIAL_DELAY == 1
CONFIRMATION_TIMEOUT == 600
CONFIRMATION_POLL == 3
WITHDRAWAL_POLL == 10
DEPOSIT_POLL == 30
DefaultFeeRate == 1           \* 0.001, in per mille
WithdrawalFeeEstimate == 5    \* USDT, when the venue reports no fee
GasFeeHalves == 1             \* 0.50 USDT, in halves of a USDT
SlippageTolerance2 == 1       \* 0.5 percent, in halves of a percent

\* --------------------------------------------------------------- database
\* db.arbitrage_opportunities: the immutable fields of the records; prices in
\* cents, spread_percent in hundredths of a percent.
Opportunities ==
    <<[id |-> 1, spread_percent |-> 500, token_symbol |-> "TOK", buy_exchange |-> "A", sell_exchange |-> "B",
       buy_price |-> 100, sell_price |-> 105],
      [id |-> 2, spread_percent |-> 100, token_symbol |-> "TOK", buy_exchange |-> "A", sell_exchange |-> "B",
       buy_price |-> 100, sell_price |-> 101],
      [id |-> 3, spread_percent |-> -476, token_symbol |-> "TOK", buy_exchange |-> "A", sell_exchange |-> "B",
       buy_price |-> 105, sell_price |-> 100],
      [id |-> 4, spread_percent |-> 0, token_symbol |-> "TOK", buy_exchange |-> "A", sell_exchange |-> "B",
       sell_price |-> 105],
      [id |-> 5, spread_percent |-> 0, token_symbol |-> "TOK", buy_exchange |-> "A", sell_exchange |-> "B",
       buy_price |-> 0, sell_price |-> 105],
      [id |-> 6, spread_percent |-> 0, token_symbol |-> "TOK", buy_exchange |-> "A", sell_exchange |-> "B",
       buy_price |-> -100, sell_price |-> 105],
      [id |-> 7, spread_percent |-> 0, token_symbol |-> "TOK", buy_exchange |-> "A", sell_exchange |-> "B",
       buy_price |-> 100],
      [id |-> 8, spread_percent |-> 0, token_symbol |-> "TOK", buy_exchange |-> "A", sell_exchange |-> "B",
       buy_price |-> 100, sell_price |-> 0],
      [id |-> 9, spread_percent |-> -200, token_symbol |-> "TOK", buy_exchange |-> "A", sell_exchange |-> "B",
       buy_price |-> 100, sell_price |-> -100]>>

OppIds == DOMAIN Opportunities

\* dict.get(key, default)
Get(r, k, d) == IF k \in DOMAIN r THEN r[k] ELSE d

\* the quotient a / b (a >= 0, b > 0) rounded to the nearest integer, ties to
\* the even one, as round() does
round_div(a, b) ==
    LET q == a \div b
        r == a % b
    IN IF 2 * r > b \/ (2 * r = b /\ q % 2 = 1) THEN q + 1 ELSE q

\* round(x, ndigits) of the quotient a / b of any sign
RoundSigned(a, b) == IF a >= 0 THEN round_div(a, b) ELSE 0 - round_div(0 - a, b)

VARIABLES
    settings,   \* db.settings: is_live_mode, telegram (enabled, with a chat id and a bot token)
    wallet,     \* db.wallet holds a record with an address
    reliable,   \* the environment: TRUE when no gateway call fails and no poll is unsuccessful
    status,     \* status[o]: the status field of opportunity o
    requests,   \* execute requests issued so far
    sagas,      \* sagas[o]: executions of o that got past the gates of execute
    pc,         \* pc[e]: where handler e stands
    req,        \* req[e]: the ExecuteArbitrageRequest of handler e
    loc,        \* loc[e]: the local variables of handler e
    journal,    \* journal[e]: the entries handler e appended to db.transaction_logs
    obs,        \* obs[e]: what handler e did to the outside (gateway calls, notifications)
    result,     \* result[e]: what execute returned
    unit        \* one call of the retry combinator or of a waiter, taken by itself

vars == <<settings, wallet, reliable, status, requests, sagas,
          pc, req, loc, journal, obs, result, unit>>

\* what the lookups in front of a live variant found: the wallet record, the
\* connections of the two venues, the token record
NoSetup == [looked |-> FALSE, wallet |-> TRUE, buy_exchange |-> TRUE,
            sell_exchange |-> TRUE, token_doc |-> TRUE]
NoAssess == [is_profitable |-> FALSE, net_profit |-> 0, computed |-> FALSE]
NoLoc == [variant |-> "none", ip |-> 0, sub |-> "begin", attempt |-> 0,
          elapsed |-> 0, slow |-> 0, exc |-> <<>>, assess |-> NoAssess,
          owed |-> FALSE, bal |-> 0, initial |-> 0,
          hashes |-> <<>>, usdt_received |-> 0, ret |-> [status |-> "none"],
          buy_order |-> [id |-> "none"], actual_token_amount |-> 0, setup |-> NoSetup]
NoObs == [mutations |-> 0, touched |-> FALSE, notified |-> 0, callOps |-> {},
          failSite |-> -1, amounts |-> {}]
NoReq == [opportunity_id |-> 0, usdt_amount |-> 0, confirmed |-> FALSE]
NoResult == [kind |-> "none", code |-> 0, detail |-> <<>>]
NoUnit == [fn |-> "none"]

\* TransactionLog
log_transaction(opportunity_id, step, st, details, is_live) ==
    [opportunity_id |-> opportunity_id, step |-> step, status |-> st,
     details |-> details, is_live |-> is_live]

Init ==
    /\ settings \in [is_live_mode : BOOLEAN, telegram : BOOLEAN]
    /\ wallet \in BOOLEAN
    /\ reliable \in BOOLEAN
    /\ status = [o \in OppIds |-> "detected"]
    /\ requests = 0
    /\ sagas = [o \in OppIds |-> 0]
    /\ pc = [e \in Execs |-> "idle"]
    /\ req = [e \in Execs |-> NoReq]
    /\ loc = [e \in Execs |-> NoLoc]
    /\ journal = [e \in Execs |-> <<>>]
    /\ obs = [e \in Execs |-> NoObs]
    /\ result = [e \in Execs |-> NoResult]
    /\ unit = NoUnit

\* ------------------------------------------------------- execute_arbitrage
\* a check that only tests for zero
invalid_price_zero_only(price) == price = 0

\* `not price or price <= 0`
invalid_price(price) == price = 0 \/ price <= 0

\* the confirmation check applied to the wrong mode
confirmation_required_in_test_mode(is_live, confirmed) == ~is_live /\ ~confirmed

\* `is_live and not request.confirmed`
confirmation_required(is_live, confirmed) == is_live /\ ~confirmed

\* The outcome of the checks of execute_arbitrage, in the order of the code.
execute_gate(opportunity, confirmed, is_live) ==
    IF invalid_price(Get(opportunity, "buy_price", 0)) THEN "invalid_buy"
    ELSE IF invalid_price(Get(opportunity, "sell_price", 0)) THEN "invalid_sell"
    ELSE IF confirmation_required(is_live, confirmed) THEN "confirmation"
    ELSE "go"

gate_error(gate) ==
    IF gate = "invalid_buy"
    THEN [kind |-> "error", code |-> 400,
          detail |-> <<"Invalid opportunity: buy price is missing or zero. Cannot execute.">>]
    ELSE IF gate = "invalid_sell"
    THEN [kind |-> "error", code |-> 400,
          detail |-> <<"Invalid opportunity: sell price is missing or zero. Cannot execute.">>]
    ELSE [kind |-> "error", code |-> 400,
          detail |-> <<"Live trading requires confirmation. Set 'confirmed: true' to proceed with real trades.">>]

\* the status update placed in front of the checks
status_before_gate(old, gate) == "executing"

\* The status written by `update_one(... {"status": "executing"})`, which the
\* code reaches only when every check has passed.
status_after_gate(old, gate) == IF gate = "go" THEN "executing" ELSE old

Free == {f \in Execs : pc[f] \in {"idle", "done"}}
Lowest(S) == CHOOSE f \in S : \A g \in S : f <= g

\* The handlers that stand before a step that reads and writes nothing but
\* their own locals, their own journal entries and their own calls, or that
\* have returned and only have to leave.  Such a step commutes with every
\* step of another handler, so the interleavings are taken in one order: of
\* these handlers the lowest moves first, and the steps that touch the
\* status or take a slot wait for them.
Quiet == {f \in Execs : pc[f] \in {"dispatch", "simulated", "simplified", "simplified_buy",
                                     "simplified_sell", "run", "done"}}
Turn(e) == \A f \in Quiet : e \in Quiet /\ e <= f

\* A request arrives and runs up to the update of the status.  The handler
\* takes the lowest free slot; slots of handlers that have returned are
\* released.  Requests overlap and follow one another in a reliable
\* environment; an unreliable environment is followed through one request
\* (a handler reads nothing that an earlier handler wrote).
execute_arbitrage(e, o, amount, confirmed) ==
    /\ requests < MaxRequests
    /\ Quiet = {}
    /\ Free # {}
    /\ e = Lowest(Free)
    /\ reliable \/ requests = 0
    /\ LET gate == execute_gate(Opportunities[o], confirmed, settings.is_live_mode)
           fresh(v, init, mine) == [f \in Execs |-> IF f = e THEN mine
                                                    ELSE IF f \in Free THEN init ELSE v[f]]
       IN /\ requests' = requests + 1
          /\ req' = fresh(req, NoReq, [opportunity_id |-> o, usdt_amount |-> amount,
                                       confirmed |-> confirmed])
          /\ loc' = fresh(loc, NoLoc, NoLoc)
          /\ journal' = fresh(journal, <<>>, <<>>)
          /\ obs' = fresh(obs, NoObs, NoObs)
          /\ status' = [status EXCEPT ![o] = status_after_gate(@, gate)]
          /\ sagas' = [sagas EXCEPT ![o] = IF gate = "go" THEN @ + 1 ELSE @]
          /\ result' = fresh(result, NoResult,
                             IF gate = "go" THEN NoResult ELSE gate_error(gate))
          /\ pc' = fresh(pc, "idle", IF gate = "go" THEN "dispatch" ELSE "done")
    /\ UNCHANGED <<unit, settings, wallet, reliable>>

\* notifications go out only when telegram is configured
notify(o) == IF settings.telegram THEN [o EXCEPT !.notified = @ + 1] ELSE o

\* a choice of the variant by the wallet alone
select_variant_by_wallet(is_live, has_wallet) == IF has_wallet THEN "full" ELSE "simulated"

\* a choice that takes every live execution through the full-transfer variant
select_variant_live_full(is_live, has_wallet) == IF is_live THEN "full" ELSE "simulated"

\* `if is_live: wallet and wallet.get('address') ... else ...`
select_variant(is_live, has_wallet) ==
    IF is_live THEN (IF has_wallet THEN "full" ELSE "simplified") ELSE "simulated"

\* what the POST to the Telegram API does: a 200 response, another response,
\* or no response at all
TransportOutcomes == {"200", "400", "ConnectError"}

\* a send without the try block: a transport error goes up to the caller
send_message_unguarded(outcome) ==
    IF outcome = "200" THEN "True" ELSE IF outcome = "400" THEN "False" ELSE "raise"

\* TelegramNotifier.send_message and send_telegram_message: True for a 200
\* response, False for any other response and for an exception of the client
send_message(outcome) == IF outcome = "200" THEN "True" ELSE "False"

\* the outcomes of the notification a handler sends, if it sends one
Sends == IF settings.telegram THEN TransportOutcomes ELSE {"200"}

\* the await of a notification raised
NotifyRaised(outcome) == settings.telegram /\ send_message(outcome) = "raise"

\* the answer of the framework to an exception that leaves the handler
InternalServerError == [kind |-> "error", code |-> 500, detail |-> <<"Internal Server Error">>]

\* notify_trade_started, in front of the try block, and the choice of the variant
notify_trade_started(e, outcome) ==
    /\ pc[e] = "dispatch"
    /\ Turn(e)
    /\ obs' = [obs EXCEPT ![e] = notify(@)]
    /\ IF NotifyRaised(outcome)
       THEN /\ result' = [result EXCEPT ![e] = InternalServerError]
            /\ pc' = [pc EXCEPT ![e] = "done"]
            /\ UNCHANGED loc
       ELSE LET v == select_variant(settings.is_live_mode, wallet)
            IN /\ loc' = [loc EXCEPT ![e].variant = v]
               /\ pc' = [pc EXCEPT ![e] = v]
               /\ UNCHANGED result
    /\ UNCHANGED <<unit, settings, wallet, reliable, status, requests, sagas,
                   req, journal>>

execute_arbitrage_dispatch(e) == \E outcome \in Sends : notify_trade_started(e, outcome)

\* The variant has returned its result: `update_one(... result['status'])`.
\* Every variant returns the status completed.
execute_arbitrage_return(e) ==
    /\ pc[e] = "return"
    /\ Turn(e)
    /\ status' = [status EXCEPT ![req[e].opportunity_id] = "completed"]
    /\ pc' = [pc EXCEPT ![e] = "completed"]
    /\ UNCHANGED <<unit, settings, wallet, reliable, requests, sagas, req, loc, journal,
                   obs, result>>

\* notify_trade_completed, the broadcast and `return result`, which come
\* after the awaited update of the status
notify_trade_completed(e, outcome) ==
    /\ pc[e] = "completed"
    /\ Turn(e)
    /\ obs' = [obs EXCEPT ![e] = notify(@)]
    /\ IF NotifyRaised(outcome)
       THEN /\ loc' = [loc EXCEPT ![e].exc = <<outcome>>]
            /\ pc' = [pc EXCEPT ![e] = "except"]
            /\ UNCHANGED result
       ELSE /\ result' = [result EXCEPT ![e] =
                            [kind |-> "ok", code |-> 200, detail |-> <<"completed">>]]
            /\ pc' = [pc EXCEPT ![e] = "done"]
            /\ UNCHANGED loc
    /\ UNCHANGED <<unit, settings, wallet, reliable, status, requests, sagas, req, journal>>

execute_arbitrage_completed(e) == \E outcome \in Sends : notify_trade_completed(e, outcome)

\* `except Exception as e` of execute_arbitrage: the status becomes failed
execute_arbitrage_except(e) ==
    /\ pc[e] = "except"
    /\ Turn(e)
    /\ status' = [status EXCEPT ![req[e].opportunity_id] = "failed"]
    /\ pc' = [pc EXCEPT ![e] = "raise"]
    /\ UNCHANGED <<unit, settings, wallet, reliable, requests, sagas, req, loc, journal,
                   obs, result>>

\* notify_error and `raise HTTPException(500, ...)`, which come after the
\* awaited update of the status
notify_error(e, outcome) ==
    /\ pc[e] = "raise"
    /\ Turn(e)
    /\ obs' = [obs EXCEPT ![e] = notify(@)]
    /\ result' = [result EXCEPT ![e] =
                    IF NotifyRaised(outcome) THEN InternalServerError
                    ELSE [kind |-> "error", code |-> 500,
                          detail |-> <<"Arbitrage execution failed:">> \o loc[e].exc]]
    /\ pc' = [pc EXCEPT ![e] = "done"]
    /\ UNCHANGED <<unit, settings, wallet, reliable, status, requests, sagas, req, loc,
                   journal>>

execute_arbitrage_raise(e) == \E outcome \in Sends : notify_error(e, outcome)

\* The response has been sent and the coroutine of the handler ends: its
\* slot is free again.
execute_arbitrage_end(e) ==
    /\ pc[e] = "done"
    /\ Turn(e)
    /\ pc' = [pc EXCEPT ![e] = "idle"]
    /\ req' = [req EXCEPT ![e] = NoReq]
    /\ loc' = [loc EXCEPT ![e] = NoLoc]
    /\ journal' = [journal EXCEPT ![e] = <<>>]
    /\ obs' = [obs EXCEPT ![e] = NoObs]
    /\ result' = [result EXCEPT ![e] = NoResult]
    /\ UNCHANGED <<unit, settings, wallet, reliable, status, requests, sagas>>

\* ------------------------------------------------ execute_simulated_arbitrage
SimulatedSteps ==
    <<"validate_balance", "deposit_to_buy_exchange", "place_buy_order", "withdraw_to_wallet",
      "deposit_to_sell_exchange", "place_sell_order", "withdraw_profits">>

SimulatedDetails ==
    <<{"usdt_amount"}, {"exchange"}, {"price"}, {}, {"exchange"}, {"price"}, {}>>

execute_simulated_arbitrage(e) ==
    /\ pc[e] = "simulated"
    /\ Turn(e)
    /\ LET o == req[e].opportunity_id
           opp == Opportunities[o]
       IN IF invalid_price(Get(opp, "buy_price", 0))
          THEN /\ loc' = [loc EXCEPT ![e].exc = <<"Cannot simulate: buy price is missing or zero">>]
               /\ pc' = [pc EXCEPT ![e] = "except"]
               /\ UNCHANGED journal
          ELSE IF invalid_price(Get(opp, "sell_price", 0))
          THEN /\ loc' = [loc EXCEPT ![e].exc = <<"Cannot simulate: sell price is missing or zero">>]
               /\ pc' = [pc EXCEPT ![e] = "except"]
               /\ UNCHANGED journal
          ELSE /\ journal' = [journal EXCEPT ![e] = @ \o
                     [i \in 1..Len(SimulatedSteps) |->
                         log_transaction(o, SimulatedSteps[i], "completed",
                                         SimulatedDetails[i], FALSE)]]
               /\ pc' = [pc EXCEPT ![e] = "return"]
               /\ UNCHANGED loc
    /\ UNCHANGED <<unit, settings, wallet, reliable, status, requests, sagas,
                   req, obs, result>>

\* ------------------------------------------- check_arbitrage_profitability
\* The assessment keeps the sign of net_profit (-1, 0, 1) and whether it was
\* computed from the fees or is the estimate of the except branch.
WithdrawalFees == {0, 1}   \* the fee the buy venue reports for the token, in tokens

FeeReplies == {[ok |-> ok, fee |-> fee] : ok \in BOOLEAN, fee \in WithdrawalFees}

\* buy_currencies.get(token, {}): the venue's entry for the token, with or
\* without a fee
TokenInfos == {[id |-> "token"]} \cup {[id |-> "token", fee |-> f] : f \in WithdrawalFees}

CurrencyReplies == {[ok |-> ok, token_info |-> t] : ok \in BOOLEAN, t \in TokenInfos}

\* `token_info.get('fee', 0)`
reported_fee(token_info) == Get(token_info, "fee", 0)

Sign(n) == IF n > 0 THEN 1 ELSE IF n < 0 THEN -1 ELSE 0

\* net_profit multiplied by 2000 * buy_price (buy_price > 0 when this is called)
NetProfitScaled(opportunity, usdt_amount, withdrawal_fee) ==
    LET B == opportunity.buy_price
        S == opportunity.sell_price
        buy_fee_rate == DefaultFeeRate
        sell_fee_rate == DefaultFeeRate
        withdrawal_fee_usdt == IF withdrawal_fee # 0 THEN 20 * B * B * withdrawal_fee
                               ELSE 2000 * B * WithdrawalFeeEstimate
        gas_fee_estimate == 1000 * B * GasFeeHalves
        net_revenue == 2 * usdt_amount * S * (1000 - sell_fee_rate)
        total_cost == 2 * usdt_amount * B * (1000 + buy_fee_rate)
                      + withdrawal_fee_usdt + gas_fee_estimate
    IN net_revenue - total_cost

\* an estimate that lets a spread of 1.0 percent pass
estimate_inclusive(spread_percent) == spread_percent >= 100

\* `opportunity['spread_percent'] > 1.0`, the spread in hundredths of a percent
conservative_estimate(spread_percent) == spread_percent > 100

\* The assessment keeps whether it was computed or is the estimate of the
\* except branch, which is returned when a lookup raised and when
\* `total_fees / usdt_amount` raised ZeroDivisionError.
check_arbitrage_profitability(opportunity, usdt_amount, reply) ==
    IF reply.ok /\ usdt_amount # 0
    THEN LET net == NetProfitScaled(opportunity, usdt_amount, reply.fee)
         IN [is_profitable |-> net > 0, net_profit |-> Sign(net), computed |-> TRUE]
    ELSE [is_profitable |-> conservative_estimate(opportunity.spread_percent),
          net_profit |-> 0, computed |-> FALSE]

\* --------------------------------------------------- retry_with_backoff
\* 2 ** n
RECURSIVE Pow2(_)
Pow2(n) == IF n = 0 THEN 1 ELSE 2 * Pow2(n - 1)

\* a test for the last attempt that is one attempt late
last_attempt_late(attempt, max_retries) == attempt = max_retries

\* `if attempt == max_retries - 1`
last_attempt(attempt, max_retries) == attempt = max_retries - 1

\* a delay that grows by initial_delay with every attempt
linear_delay(initial_delay, attempt) == initial_delay * (attempt + 1)

\* `delay = initial_delay * (2 ** attempt)`
backoff_delay(initial_delay, attempt) == initial_delay * Pow2(attempt)

\* What one pass of the loop of the combinator does after the invocation of
\* attempt number `attempt` (counted from 0) ended with `outcome`: return the
\* value, re-raise the error, or sleep `delay` seconds and go round again.
retry_with_backoff(max_retries, initial_delay, attempt, outcome) ==
    IF outcome = "ok" THEN [next |-> "return", delay |-> 0]
    ELSE IF last_attempt(attempt, max_retries) THEN [next |-> "raise", delay |-> 0]
    ELSE IF outcome = "RateLimitExceeded"
    THEN [next |-> "sleep", delay |-> backoff_delay(initial_delay, attempt)]
    ELSE [next |-> "sleep", delay |-> initial_delay]

\* ------------------------------------ execute_full_arbitrage_with_transfers
\* The calls of the try block, in the order of the code.
FullPlan ==
    <<[kind |-> "log", step |-> "step_1_fund_buy_exchange", side |-> "buy"],
      [kind |-> "addr", step |-> "get_deposit_address_", side |-> "buy"],
      [kind |-> "send", step |-> "step_1_fund_buy_exchange", side |-> "buy"],
      [kind |-> "confirm", step |-> "step_1_blockchain_confirm", side |-> "buy"],
      [kind |-> "deposit", step |-> "wait_deposit_", side |-> "buy"],
      [kind |-> "order", step |-> "step_3_buy_token", side |-> "buy"],
      [kind |-> "withdraw", step |-> "withdraw_from_", side |-> "buy"],
      [kind |-> "wcomplete", step |-> "withdraw_status_", side |-> "buy"],
      [kind |-> "confirm", step |-> "step_4_blockchain_confirm", side |-> "buy"],
      [kind |-> "addr", step |-> "get_deposit_address_", side |-> "sell"],
      [kind |-> "send", step |-> "step_6_send_to_sell_exchange", side |-> "sell"],
      [kind |-> "confirm", step |-> "step_6_blockchain_confirm", side |-> "sell"],
      [kind |-> "deposit", step |-> "wait_deposit_", side |-> "sell"],
      [kind |-> "order", step |-> "step_8_sell_token", side |-> "sell"],
      [kind |-> "log", step |-> "step_9_withdraw_profit", side |-> "sell"],
      [kind |-> "withdraw", step |-> "withdraw_from_", side |-> "sell"],
      [kind |-> "wcomplete", step |-> "withdraw_status_", side |-> "sell"],
      [kind |-> "confirm", step |-> "step_9_blockchain_confirm", side |-> "sell"]>>

Op(e) == FullPlan[loc[e].ip]
Running(e, kind) == pc[e] = "run" /\ Op(e).kind = kind
Venue(e) == IF Op(e).side = "buy" THEN Opportunities[req[e].opportunity_id].buy_exchange
            ELSE Opportunities[req[e].opportunity_id].sell_exchange
J(e, step, st, details) == log_transaction(req[e].opportunity_id, step, st, details, TRUE)

\* the ways a call of each kind can fail
Failures(kind) ==
    IF kind \in {"addr", "order", "withdraw"} THEN {"RateLimitExceeded", "ExchangeError"}
    ELSE IF kind = "send" THEN {"estimate_gas", "send_raw_transaction"}
    ELSE IF kind = "log" THEN {}
    ELSE {"timeout"}

\* what a gateway call can do: return, or raise one of the two error classes
CallOutcomes == {"ok"} \cup (IF reliable THEN {} ELSE Failures("order"))
\* The text of the exception a call of the try block raises.  str(e) of a
\* gateway error is the venue id followed by the message of the venue.
saga_error(kind, venue, outcome) ==
    CASE kind = "addr" -> <<"Failed to get deposit address:", venue, outcome>>
      [] kind = "send" -> <<"Token transfer failed:", outcome>>
      [] kind = "order" -> <<venue, outcome>>
      [] kind = "withdraw" -> <<"Withdrawal from", venue, "failed:", venue, outcome>>
      [] kind = "confirm" -> <<"Blockchain confirmation timeout after 600 seconds">>
      [] kind = "deposit" -> <<"Deposit credit timeout after 1800 seconds">>
      [] kind = "wcomplete" -> <<"Withdrawal timeout after 1800 seconds">>

\* a try block that leaves out a call
skip_ip(i) == i + 2

\* the index of the call that follows call i
next_ip(i) == i + 1

\* One step of handler e inside the saga: new locals, appended journal entries,
\* new observations, new position.
Step(e, l, entries, o, p) ==
    /\ Turn(e)
    /\ loc' = [loc EXCEPT ![e] = l]
    /\ journal' = [journal EXCEPT ![e] = @ \o entries]
    /\ obs' = [obs EXCEPT ![e] = o]
    /\ pc' = [pc EXCEPT ![e] = p]
    /\ UNCHANGED <<unit, settings, wallet, reliable, requests, sagas, req, result>>

\* the call returned: go on with the next call of the try block
ProceedWith(e, l, entries, o) ==
    Step(e, [l EXCEPT !.ip = next_ip(@), !.sub = "begin", !.attempt = 0, !.elapsed = 0],
         entries, o, IF next_ip(loc[e].ip) > Len(FullPlan) THEN "full_done" ELSE "run")

Proceed(e, entries, o) == ProceedWith(e, loc[e], entries, o)

\* the call raised: control passes to the except block of the saga
Raise(e, entries, o, text) ==
    Step(e, [loc[e] EXCEPT !.exc = text], entries,
         [o EXCEPT !.failSite = loc[e].ip], "full_except")

\* What the venue holds and owes.  Amounts at a venue are counted in cents of
\* a USDT at the buy venue and in 1/buy_price (in cents) of a token at the
\* sell venue, so that usdt_amount and token_amount = usdt_amount / buy_price
\* are the same number of units.  The free balance of the target asset is
\* counted from its level at the broadcast of the transfer.
Units(usdt_amount) == 100 * usdt_amount

\* `token_amount = usdt_amount / opportunity['buy_price']`
token_amount(usdt_amount) == Units(usdt_amount)

\* The amount argument of the call handler e stands at: usdt_amount for the
\* funding of the buy venue, token_amount for the buy order,
\* actual_token_amount for the token steps after it, usdt_received (in USDT)
\* for the withdrawal of the proceeds (in units of 0.00001 USDT).
amount_of_call(e) ==
    LET buy == Op(e).side = "buy"
    IN CASE Op(e).kind \in {"send", "confirm", "deposit"} ->
               IF buy THEN Units(req[e].usdt_amount) ELSE loc[e].actual_token_amount
         [] Op(e).kind = "order" ->
               IF buy THEN token_amount(req[e].usdt_amount) ELSE loc[e].actual_token_amount
         [] Op(e).kind = "withdraw" ->
               IF buy THEN loc[e].actual_token_amount ELSE loc[e].usdt_received
         [] OTHER -> 0

\* the calls that take an amount
TakesAmount(kind) == kind \in {"send", "deposit", "order", "withdraw"}

Called(e) ==
    [obs[e] EXCEPT !.touched = TRUE, !.callOps = @ \cup {loc[e].ip},
                   !.amounts = IF TakesAmount(Op(e).kind)
                               THEN @ \cup {[ip |-> loc[e].ip, amount |-> amount_of_call(e)]}
                               ELSE @]
Mutated(e) == [Called(e) EXCEPT !.mutations = @ + 1]

\* What the database and get_exchange_instance answer in front of a live
\* variant.  The database is a service of its own and a connection needs the
\* venue's record and its markets: in an unreliable environment each answer
\* can be missing.  A lookup the code does not reach counts as found.
Lookups(variant) ==
    {s \in [looked : {TRUE}, wallet : BOOLEAN, buy_exchange : BOOLEAN,
            sell_exchange : BOOLEAN, token_doc : BOOLEAN] :
        /\ reliable => (s.wallet /\ s.buy_exchange /\ s.sell_exchange /\ s.token_doc)
        /\ variant = "simplified" => (s.wallet /\ s.token_doc)
        /\ ~s.wallet => (s.buy_exchange /\ s.sell_exchange /\ s.token_doc)
        /\ ~(s.buy_exchange /\ s.sell_exchange) => s.token_doc}

\* a setup that goes on whatever the lookups found
saga_setup_unchecked(lookup) == <<>>

\* The three checks in front of the saga, in the order of the code: the
\* detail of the HTTPException raised, <<>> when every lookup found its record.
saga_setup(lookup) ==
    IF ~lookup.wallet THEN <<"Wallet not configured. Please add your wallet in settings.">>
    ELSE IF ~lookup.buy_exchange \/ ~lookup.sell_exchange THEN <<"Exchange not configured">>
    ELSE IF ~lookup.token_doc THEN <<"Token not found in database">>
    ELSE <<>>

\* the two checks in front of the simplified variant
real_setup(lookup, opportunity) ==
    IF ~lookup.buy_exchange THEN <<"Buy exchange", opportunity.buy_exchange, "not available">>
    ELSE IF ~lookup.sell_exchange
    THEN <<"Sell exchange", opportunity.sell_exchange, "not available">>
    ELSE <<>>

\* wallet, exchange instances, web3, token record, status update
execute_full_setup(e) ==
    /\ pc[e] = "full"
    /\ \E lookup \in Lookups("full") :
          LET l == [loc[e] EXCEPT !.setup = lookup]
          IN IF saga_setup(lookup) = <<>>
             THEN /\ status' = [status EXCEPT ![req[e].opportunity_id] = "executing"]
                  /\ Step(e, l, <<>>, obs[e], "profitability")
             ELSE /\ UNCHANGED status
                  /\ Step(e, [l EXCEPT !.exc = saga_setup(lookup)], <<>>, obs[e], "except")

\* STEP 0 of the saga: the profitability gate, and the message that the saga
\* starts, which is sent in front of the try block of the saga
profitability_check_sending(e, outcome) ==
    /\ pc[e] = "profitability"
    /\ \E reply \in {r \in FeeReplies : r.ok \/ ~reliable} :
        LET o == req[e].opportunity_id
            profitability == check_arbitrage_profitability(Opportunities[o],
                                                           req[e].usdt_amount, reply)
            started == J(e, "profitability_check", "started", {})
            l == [loc[e] EXCEPT !.assess = profitability]
            called == [obs[e] EXCEPT !.touched = TRUE, !.callOps = @ \cup {0}]
        IN IF ~profitability.is_profitable
           THEN /\ status' = [status EXCEPT ![o] = "failed"]
                /\ Step(e, [l EXCEPT !.exc = <<"Not profitable after fees">>],
                        <<started, J(e, "profitability_check", "failed",
                                     {"reason", "net_profit", "total_fees",
                                      "min_spread_required"})>>,
                        called, "except")
           ELSE /\ UNCHANGED status
                /\ Step(e, IF NotifyRaised(outcome) THEN [l EXCEPT !.exc = <<outcome>>]
                           ELSE [l EXCEPT !.ip = 1],
                        <<started, J(e, "profitability_check", "completed",
                                     {"is_profitable", "net_profit", "profit_percent",
                                      "total_fees", "breakdown", "min_spread_required"})>>,
                        notify(called), IF NotifyRaised(outcome) THEN "except" ELSE "run")

profitability_check(e) == \E outcome \in Sends : profitability_check_sending(e, outcome)

\* `await log_transaction(..., "started", ...)` in front of STEP 1 and STEP 9
step_started(e) ==
    /\ Running(e, "log")
    /\ UNCHANGED status
    /\ Proceed(e, <<J(e, Op(e).step, "started", {"amount"})>>, obs[e])

get_deposit_address(e) ==
    /\ Running(e, "addr")
    /\ UNCHANGED status
    /\ \E outcome \in CallOutcomes :
        LET step == Op(e).step \o Venue(e)
            pre == IF loc[e].sub = "begin"
                   THEN <<J(e, step, "started", {"token", "network"})>> ELSE <<>>
            next == retry_with_backoff(MAX_RETRIES, INITIAL_DELAY, loc[e].attempt, outcome).next
        IN IF next = "return"
           THEN Proceed(e, pre \o <<J(e, step, "completed", {"address", "network"})>>, Called(e))
           ELSE IF next = "sleep"
           THEN Step(e, [loc[e] EXCEPT !.sub = "call", !.attempt = @ + 1], pre, Called(e), "run")
           ELSE Raise(e, pre \o <<J(e, step, "failed", {"error"})>>, Called(e),
                      saga_error("addr", Venue(e), outcome))

\* what the venue adds to the free balance for a deposit of `amount` units:
\* all of it, or one unit less than 99 percent of it
Credits(amount) == {amount, (99 * amount) \div 100 - 1}

send_token_from_wallet_to_exchange(e) ==
    /\ Running(e, "send")
    /\ UNCHANGED status
    /\ \E outcome \in {"ok"} \cup (IF reliable THEN {} ELSE Failures("send")) :
        LET started == J(e, Op(e).step, "started", {"token", "amount", "destination"})
        IN IF outcome = "ok"
           THEN ProceedWith(e, [loc[e] EXCEPT !.owed = TRUE, !.bal = 0,
                                              !.hashes = Append(@, Op(e).step)],
                            <<started, J(e, Op(e).step, "broadcast",
                                        {"tx_hash", "gas_used", "gas_price"})>>, Mutated(e))
           ELSE Raise(e, <<started, J(e, Op(e).step, "failed", {"error"})>>,
                      IF outcome = "send_raw_transaction" THEN Mutated(e) ELSE Called(e),
                      saga_error("send", Venue(e), outcome))

\* place_buy_order / place_sell_order under retry_with_backoff
\* The order a market sell returns, with its cost in units of 0.00001 USDT:
\* the recorded sell price for the whole amount where the environment is
\* reliable, a fill that is 0.12346 USDT better where it is not.
SellOrders(opportunity, usdt_amount) ==
    LET quoted == (100000 * usdt_amount * opportunity.sell_price) \div opportunity.buy_price
    IN IF reliable THEN {[id |-> "order", cost |-> quoted]}
       ELSE {[id |-> "order", cost |-> quoted + 12346]}

\* The order a market buy returns: without a filled quantity where the
\* environment is reliable, filled one unit short of the requested quantity
\* where it is not.
BuyOrders(requested) ==
    IF reliable THEN {[id |-> "order"]}
    ELSE {[id |-> "order", filled |-> IF requested > 0 THEN requested - 1 ELSE 0]}

\* a quantity that is the requested one whatever the venue filled
requested_quantity(buy_order, requested) == requested

\* `buy_order.get('filled', token_amount)`
filled_quantity(buy_order, requested) == Get(buy_order, "filled", requested)

create_order(e) ==
    /\ Running(e, "order")
    /\ UNCHANGED status
    /\ \E outcome \in CallOutcomes :
        LET pre == IF loc[e].sub = "begin"
                   THEN <<J(e, Op(e).step, "started", {"exchange", "amount"})>> ELSE <<>>
            next == retry_with_backoff(MAX_RETRIES, INITIAL_DELAY, loc[e].attempt, outcome).next
            completed == J(e, Op(e).step, "completed", {"order_id", "filled"})
        IN IF next = "return"
           THEN IF Op(e).side = "sell"
                THEN \E sell_order \in SellOrders(Opportunities[req[e].opportunity_id],
                                                  req[e].usdt_amount) :
                        ProceedWith(e, [loc[e] EXCEPT
                                          !.usdt_received = Get(sell_order, "cost", 0)],
                                    pre \o <<completed>>, Mutated(e))
                ELSE \E buy_order \in BuyOrders(token_amount(req[e].usdt_amount)) :
                        ProceedWith(e, [loc[e] EXCEPT
                                          !.buy_order = buy_order,
                                          !.actual_token_amount =
                                              filled_quantity(buy_order,
                                                              token_amount(req[e].usdt_amount))],
                                    pre \o <<completed>>, Mutated(e))
           ELSE IF next = "sleep"
           THEN Step(e, [loc[e] EXCEPT !.sub = "call", !.attempt = @ + 1], pre, Mutated(e), "run")
           ELSE Raise(e, pre, Mutated(e), saga_error("order", Venue(e), outcome))

withdraw_from_exchange_to_wallet(e) ==
    /\ Running(e, "withdraw")
    /\ UNCHANGED status
    /\ \E outcome \in CallOutcomes :
        LET step == Op(e).step \o Venue(e)
            pre == IF loc[e].sub = "begin"
                   THEN <<J(e, step, "started", {"token", "amount", "destination"})>> ELSE <<>>
            next == retry_with_backoff(MAX_RETRIES, INITIAL_DELAY, loc[e].attempt, outcome).next
        IN IF next = "return"
           THEN Proceed(e, pre \o <<J(e, step, "submitted", {"withdrawal_id", "tx_hash", "fee"})>>,
                        Mutated(e))
           ELSE IF next = "sleep"
           THEN Step(e, [loc[e] EXCEPT !.sub = "call", !.attempt = @ + 1], pre, Mutated(e), "run")
           ELSE Raise(e, pre \o <<J(e, step, "failed", {"error"})>>, Mutated(e),
                      saga_error("withdraw", Venue(e), outcome))

\* ------------------------------------------------------------- the waiters
\* a loop condition that admits one more pass at the ceiling
within_inclusive(elapsed, timeout) == elapsed <= timeout

\* `while time.time() - start_time < timeout`
within(elapsed, timeout) == elapsed < timeout

\* The locals after `await asyncio.sleep(interval)`: the clock has advanced by
\* the interval, or the call took so long that the ceiling has passed.
Sleeps(l, interval, timeout) ==
    {[l EXCEPT !.sub = "poll", !.elapsed = @ + interval, !.slow = @ + 1] :
        x \in IF l.slow < MaxSlowPolls THEN {0} ELSE {}}
    \cup {[l EXCEPT !.sub = "poll", !.elapsed = @ + interval + timeout]}

Depths == {-1, 0, 1}   \* current block number minus the block of the transaction

\* a confirmation count that leaves out the block of the transaction
confirmations_after(current_block, tx_block) == current_block - tx_block

\* `confirmations = current_block - tx_block + 1`
confirmations(current_block, tx_block) == current_block - tx_block + 1

\* One pass of the loop of wait_for_blockchain_confirmation.  receipt is FALSE
\* when get_transaction_receipt returned nothing or raised; depth is
\* current_block - tx_block.
confirmation_poll(receipt, depth, required_confirmations) ==
    IF ~receipt THEN [next |-> "sleep", logged |-> FALSE]
    ELSE IF confirmations(depth, 0) >= required_confirmations
    THEN [next |-> "return", logged |-> TRUE]
    ELSE [next |-> "sleep", logged |-> TRUE]

wait_for_blockchain_confirmation(e) ==
    /\ Running(e, "confirm")
    /\ UNCHANGED status
    /\ LET pre == IF loc[e].sub = "begin"
                  THEN <<J(e, Op(e).step, "started", {"tx_hash", "required_confirmations"})>>
                  ELSE <<>>
           confirming == J(e, Op(e).step, "confirming",
                           {"confirmations", "required", "elapsed_seconds"})
       IN IF ~within(loc[e].elapsed, CONFIRMATION_TIMEOUT)
          THEN Raise(e, pre, obs[e], saga_error("confirm", Venue(e), "timeout"))
          ELSE \E receipt \in BOOLEAN, depth \in Depths :
                 LET poll == confirmation_poll(receipt, depth, MIN_CONFIRMATIONS)
                     seen == IF poll.logged THEN <<confirming>> ELSE <<>>
                 IN IF poll.next = "return"
                    THEN Proceed(e, pre \o seen \o
                                    <<J(e, Op(e).step, "completed",
                                        {"confirmations", "total_wait_seconds"})>>, Called(e))
                    ELSE \E l \in Sleeps(loc[e], CONFIRMATION_POLL, CONFIRMATION_TIMEOUT) :
                            ~reliable /\ Step(e, l, pre \o seen, Called(e), "run")

\* a comparison with the whole expected amount
reaches_expected(increase, expected_amount) == increase >= expected_amount

\* `increase >= (expected_amount * 0.99)`
reaches_tolerance(increase, expected_amount) == 100 * increase >= 99 * expected_amount

\* One pass of the loop of wait_for_deposit_credit; raised: fetch_balance raised.
deposit_poll(raised, initial_amount, current_amount, expected_amount) ==
    IF raised THEN [next |-> "sleep", logged |-> FALSE]
    ELSE IF reaches_tolerance(current_amount - initial_amount, expected_amount)
    THEN [next |-> "return", logged |-> TRUE]
    ELSE [next |-> "sleep", logged |-> TRUE]

\* The venue credits the deposit of handler e, at any time after the broadcast
\* of the transfer.  A reliable environment credits the whole amount between
\* the snapshot of the waiter and its first poll.
venue_credit(e) ==
    /\ pc[e] = "run"
    /\ loc[e].owed
    /\ reliable => (Op(e).kind = "deposit" /\ loc[e].sub = "poll")
    /\ UNCHANGED status
    /\ \E credit \in Credits(amount_of_call(e)) :
          /\ reliable => credit = amount_of_call(e)
          /\ Step(e, [loc[e] EXCEPT !.owed = FALSE, !.bal = @ + credit], <<>>, obs[e], "run")

\* an initial amount that is the venue's free balance even when the fetch
\* raised
initial_snapshot_known(raised, free) == free

\* `initial_amount`: the free balance fetched when the waiter starts, or 0
\* when the fetch raised
initial_snapshot(raised, free) == IF raised THEN 0 ELSE free

wait_for_deposit_credit(e) ==
    /\ Running(e, "deposit")
    /\ UNCHANGED status
    /\ LET step == Op(e).step \o Venue(e)
           checking == J(e, step, "checking",
                         {"initial", "current", "increase", "expected", "elapsed_seconds"})
           done == [loc[e] EXCEPT !.owed = FALSE, !.bal = 0, !.initial = 0]
       IN IF loc[e].sub = "begin"
          THEN \E raised \in (IF reliable THEN {FALSE} ELSE BOOLEAN) :
                 Step(e, [loc[e] EXCEPT !.sub = "poll",
                                        !.initial = initial_snapshot(raised, loc[e].bal)],
                      <<J(e, step, "started", {"token", "expected_amount"})>>,
                      Called(e), "run")
          ELSE IF ~within(loc[e].elapsed, DEPOSIT_TIMEOUT)
          THEN Raise(e, <<>>, obs[e], saga_error("deposit", Venue(e), "timeout"))
          ELSE \E raised \in BOOLEAN :
                 LET poll == deposit_poll(raised, loc[e].initial, loc[e].bal,
                                          amount_of_call(e))
                     seen == IF poll.logged THEN <<checking>> ELSE <<>>
                 IN IF poll.next = "return"
                    THEN ProceedWith(e, done, seen \o
                                     <<J(e, step, "completed",
                                         {"credited_amount", "total_wait_seconds"})>>,
                                     Called(e))
                    ELSE \E l \in Sleeps(loc[e], DEPOSIT_POLL, DEPOSIT_TIMEOUT) :
                            ~reliable /\ Step(e, l, seen, Called(e), "run")

SuccessStatuses == {"ok", "complete", "completed", "success"}
FailureStatuses == {"failed", "canceled", "cancelled"}

\* the statuses a venue reports, as the gateway passes them on
VenueStatuses == {"ok", "OK", "complete", "completed", "Completed", "success",
                  "pending", "processing", "", "failed", "canceled", "cancelled"}

\* str.lower()
Lower(s) == CASE s = "OK" -> "ok"
              [] s = "Completed" -> "completed"
              [] OTHER -> s

\* the replies of fetch_withdrawal: it raised, or it returned a status and a
\* txid ("" when the venue has none yet)
WithdrawalReplies ==
    {[raised |-> r, status |-> st, txid |-> t] :
        r \in BOOLEAN, st \in VenueStatuses, t \in {"", "0xhash"}}

\* a comparison of the status as the venue spelled it
same_spelling(st) == st

\* `withdrawal.get('status', '').lower()`
reported_status(st) == Lower(st)

\* One pass of the loop of wait_for_withdrawal_completion.  For a status in
\* FailureStatuses the code raises inside the try of the loop; the
\* `except Exception` of the loop catches that and sleeps, like for any other
\* status that is not a success.
withdrawal_poll(withdrawal) ==
    IF withdrawal.raised THEN [next |-> "sleep", logged |-> FALSE, value |-> ""]
    ELSE LET st == reported_status(withdrawal.status)
         IN IF st \in SuccessStatuses /\ withdrawal.txid # ""
            THEN [next |-> "return", logged |-> TRUE, value |-> withdrawal.txid]
            ELSE [next |-> "sleep", logged |-> TRUE, value |-> ""]

\* a completion entry under the step name of the status polls
completion_under_status(exchange_name) == "withdraw_status_" \o exchange_name

\* the step name of the entry that records the completed withdrawal
completion_step(exchange_name) == "withdraw_from_" \o exchange_name

wait_for_withdrawal_completion(e) ==
    /\ Running(e, "wcomplete")
    /\ UNCHANGED status
    /\ LET checking == J(e, Op(e).step \o Venue(e), "checking", {"status", "elapsed_seconds"})
       IN IF ~within(loc[e].elapsed, WITHDRAWAL_TIMEOUT)
          THEN Raise(e, <<>>, obs[e], saga_error("wcomplete", Venue(e), "timeout"))
          ELSE \E withdrawal \in WithdrawalReplies :
                 LET poll == withdrawal_poll(withdrawal)
                     seen == IF poll.logged THEN <<checking>> ELSE <<>>
                 IN IF poll.next = "return"
                    THEN ProceedWith(e, [loc[e] EXCEPT
                                             !.hashes = Append(@, completion_step(Venue(e)))],
                                     seen \o <<J(e, completion_step(Venue(e)), "completed",
                                                {"tx_hash", "total_wait_seconds"})>>, Called(e))
                    ELSE \E l \in Sleeps(loc[e], WITHDRAWAL_POLL, WITHDRAWAL_TIMEOUT) :
                            ~reliable /\ Step(e, l, seen, Called(e), "run")

\* a profit that is the proceeds alone
proceeds_alone(usdt_received, usdt_amount) == RoundSigned(usdt_received, 10)

\* `round(usdt_received - usdt_amount, 4)`, in units of 0.0001 USDT, of
\* proceeds in units of 0.00001 USDT
actual_profit(usdt_received, usdt_amount) ==
    RoundSigned(usdt_received - 100000 * usdt_amount, 10)

\* `[fund_tx_hash, withdraw_tx_hash, deposit_tx_hash, profit_tx_hash]`: the
\* hashes the two wallet transfers and the two withdrawal waits returned
blockchain_transactions(hashes) == <<hashes[1], hashes[2], hashes[3], hashes[4]>>

\* the end of the try block: status completed, the last journal entry, the
\* success notification, the dict that is returned
execute_full_completed_sending(e, outcome) ==
    /\ pc[e] = "full_done"
    /\ status' = [status EXCEPT ![req[e].opportunity_id] = "completed"]
    /\ Step(e, IF NotifyRaised(outcome) THEN [loc[e] EXCEPT !.exc = <<outcome>>]
               ELSE [loc[e] EXCEPT !.ret =
                   [status |-> "completed",
                    usdt_invested |-> req[e].usdt_amount,
                    usdt_received |-> loc[e].usdt_received,
                    profit |-> actual_profit(loc[e].usdt_received, req[e].usdt_amount),
                    blockchain_transactions |-> blockchain_transactions(loc[e].hashes)]],
            <<J(e, "completed", "completed",
                {"total_time_seconds", "total_time_minutes", "usdt_invested", "usdt_received",
                 "profit", "profit_percent", "all_funds_returned_to_wallet"})>>,
            notify(obs[e]), IF NotifyRaised(outcome) THEN "full_except" ELSE "return")

execute_full_completed(e) == \E outcome \in Sends : execute_full_completed_sending(e, outcome)

\* an except block that submits one compensating withdrawal
one_compensation(mutations) == mutations + 1

\* the gateway mutation calls of the execution after the except block of the
\* saga, which makes none
compensation_calls(mutations) == mutations

\* `except Exception as e` of the saga: journal, status failed, notification, re-raise
execute_full_except_sending(e, outcome) ==
    /\ pc[e] = "full_except"
    /\ status' = [status EXCEPT ![req[e].opportunity_id] = "failed"]
    /\ Step(e, IF NotifyRaised(outcome) THEN [loc[e] EXCEPT !.exc = <<outcome>>] ELSE loc[e],
            <<J(e, "failed", "failed", {"error", "failed_at_seconds"})>>,
            notify([obs[e] EXCEPT !.mutations = compensation_calls(@)]), "except")

execute_full_except(e) == \E outcome \in Sends : execute_full_except_sending(e, outcome)

\* ----------------------------------------------------- execute_real_arbitrage
\* What fetch_ticker returns for the two venues: how far the ask and the bid
\* have moved from the recorded prices (in cents), or no price at all.
Tickers == {[ask_move |-> a, bid_move |-> b, priced |-> p] :
               a \in {0, 1}, b \in {0, 1}, p \in BOOLEAN}

Abs(n) == IF n < 0 THEN -n ELSE n

\* `abs((current - original) / original * 100) > slippage_tolerance`
slippage_exceeded(move, original) == Abs(move) * 200 > SlippageTolerance2 * Abs(original)

\* a check of the buy side alone
buy_side_exceeded(buy_slippage, sell_slippage) == buy_slippage

\* `buy_slippage > slippage_tolerance or sell_slippage > slippage_tolerance`
either_side_exceeded(buy_slippage, sell_slippage) == buy_slippage \/ sell_slippage

\* Step 1 of the simplified variant, from the two tickers to its outcome.
\* The moves and the recorded prices are counted in one unit.
price_check(ticker, buy_price, sell_price) ==
    IF ~ticker.priced THEN "unpriced"
    ELSE IF either_side_exceeded(slippage_exceeded(ticker.ask_move, buy_price),
                                 slippage_exceeded(ticker.bid_move, sell_price))
    THEN "slippage"
    ELSE "ok"

\* exchange instances, symbols, fresh prices and the slippage check
execute_real_arbitrage(e) ==
    /\ pc[e] = "simplified"
    /\ UNCHANGED status
    /\ LET opp == Opportunities[req[e].opportunity_id]
           called == [obs[e] EXCEPT !.touched = TRUE]
       IN \E lookup \in Lookups("simplified") :
            LET l == [loc[e] EXCEPT !.setup = lookup]
                fail(o, text) == Step(e, [l EXCEPT !.exc = text], <<>>, o, "except")
            IN IF real_setup(lookup, opp) # <<>>
               THEN fail(obs[e], real_setup(lookup, opp))
               ELSE \E ticker \in Tickers :
               IF price_check(ticker, opp.buy_price, opp.sell_price) = "unpriced"
               THEN fail([called EXCEPT !.failSite = 1], <<"Unable to fetch current prices">>)
               ELSE IF price_check(ticker, opp.buy_price, opp.sell_price) = "slippage"
               THEN fail([called EXCEPT !.failSite = 1], <<"Price slippage too high">>)
               ELSE Step(e, l,
                         <<J(e, "price_check", "completed",
                             {"current_buy_price", "current_sell_price", "buy_slippage",
                              "sell_slippage"})>>,
                         called, "simplified_buy")

\* a failed buy after which the variant goes on to the sell order
buy_failed_continue == "simplified_sell"

\* `raise Exception(f"Buy order failed: {str(e)}")`: control leaves the variant
buy_failed_raise == "except"

\* Step 2 of the simplified variant: the market buy
execute_real_arbitrage_buy(e) ==
    /\ pc[e] = "simplified_buy"
    /\ UNCHANGED status
    /\ LET opp == Opportunities[req[e].opportunity_id]
           called == [obs[e] EXCEPT !.touched = TRUE, !.mutations = @ + 1]
       IN \E outcome \in CallOutcomes :
            IF outcome = "ok"
            THEN Step(e, loc[e],
                      <<J(e, "buy_order", "completed", {"order_id", "amount", "price", "exchange"})>>,
                      called, "simplified_sell")
            ELSE Step(e, [loc[e] EXCEPT !.exc = <<"Buy order failed:", opp.buy_exchange, outcome>>],
                      <<J(e, "buy_order", "failed", {"error"})>>,
                      [called EXCEPT !.failSite = 2], buy_failed_raise)

\* Step 3 of the simplified variant: the market sell, the profit, the result
execute_real_arbitrage_sell(e) ==
    /\ pc[e] = "simplified_sell"
    /\ UNCHANGED status
    /\ LET opp == Opportunities[req[e].opportunity_id]
           called == [obs[e] EXCEPT !.touched = TRUE, !.mutations = @ + 1]
       IN \E outcome \in CallOutcomes :
            IF outcome = "ok"
            THEN Step(e, loc[e],
                      <<J(e, "sell_order", "completed", {"order_id", "amount", "price", "exchange"}),
                        J(e, "completed", "completed",
                          {"buy_cost", "sell_revenue", "profit", "profit_percent"})>>,
                      called, "return")
            ELSE Step(e, [loc[e] EXCEPT !.exc = <<"Sell order failed:", opp.sell_exchange, outcome>>],
                      <<J(e, "sell_order", "failed", {"error"})>>,
                      [called EXCEPT !.failSite = 3], "except")

Next ==
    \/ \E e \in Execs, o \in OppIds, amount \in Amounts, confirmed \in BOOLEAN :
          execute_arbitrage(e, o, amount, confirmed)
    \/ \E e \in Execs : execute_arbitrage_dispatch(e)
    \/ \E e \in Execs : execute_simulated_arbitrage(e)
    \/ \E e \in Execs : execute_full_setup(e)
    \/ \E e \in Execs : profitability_check(e)
    \/ \E e \in Execs : step_started(e)
    \/ \E e \in Execs : get_deposit_address(e)
    \/ \E e \in Execs : send_token_from_wallet_to_exchange(e)
    \/ \E e \in Execs : create_order(e)
    \/ \E e \in Execs : withdraw_from_exchange_to_wallet(e)
    \/ \E e \in Execs : wait_for_blockchain_confirmation(e)
    \/ \E e \in Execs : venue_credit(e)
    \/ \E e \in Execs : wait_for_deposit_credit(e)
    \/ \E e \in Execs : wait_for_withdrawal_completion(e)
    \/ \E e \in Execs : execute_full_completed(e)
    \/ \E e \in Execs : execute_full_except(e)
    \/ \E e \in Execs : execute_real_arbitrage(e)
    \/ \E e \in Execs : execute_real_arbitrage_buy(e)
    \/ \E e \in Execs : execute_real_arbitrage_sell(e)
    \/ \E e \in Execs : execute_arbitrage_return(e)
    \/ \E e \in Execs : execute_arbitrage_completed(e)
    \/ \E e \in Execs : execute_arbitrage_except(e)
    \/ \E e \in Execs : execute_arbitrage_raise(e)
    \/ \E e \in Execs : execute_arbitrage_end(e)

Spec == Init /\ [][Next]_vars

\* ======================================================================
\* The arithmetic of execute_simulated_arbitrage
\* ======================================================================
\* Prices are counted in cents and usdt_amount in whole USDT, so that
\* usdt_amount / buy_price is 100 * usdt_amount / price in cents.  The floats
\* of the code are taken as exact decimals.

\* round(n / b, 8) for n >= 0, as whole part and eight decimals; the digits
\* are produced four at a time
Round8(n, b) ==
    LET whole == n \div b
        r0 == n % b
        hi == (r0 * 10000) \div b
        r1 == (r0 * 10000) % b
        lo == round_div(r1 * 10000, b)
        frac == hi * 10000 + lo
    IN IF frac = 100000000 THEN [whole |-> whole + 1, frac8 |-> 0]
       ELSE [whole |-> whole, frac8 |-> frac]

\* a percentage that is computed for every amount
profit_percent_unguarded(usdt_amount, buy_price, sell_price) ==
    RoundSigned((sell_price - buy_price) * 1000000, buy_price)

\* `(profit / usdt_amount) * 100 if usdt_amount > 0 else 0`, rounded to 4
\* decimals, in units of 0.0001 percent
profit_percent(usdt_amount, buy_price, sell_price) ==
    IF usdt_amount > 0 THEN RoundSigned((sell_price - buy_price) * 1000000, buy_price)
    ELSE 0

\* The result of execute_simulated_arbitrage.  tokens_bought is a sign, a
\* whole part and eight decimals; sell_value and profit are in units of
\* 0.0001 USDT.
simulated_result(usdt_amount, buy_price, sell_price) ==
    IF invalid_price(buy_price)
    THEN [kind |-> "raised", text |-> <<"Cannot simulate: buy price is missing or zero">>]
    ELSE IF invalid_price(sell_price)
    THEN [kind |-> "raised", text |-> <<"Cannot simulate: sell price is missing or zero">>]
    ELSE [kind |-> "returned",
          usdt_invested |-> usdt_amount,
          tokens_bought |-> [negative |-> usdt_amount < 0]
                            @@ Round8(100 * Abs(usdt_amount), buy_price),
          sell_value |-> RoundSigned(usdt_amount * sell_price * 10000, buy_price),
          profit |-> RoundSigned(usdt_amount * (sell_price - buy_price) * 10000, buy_price),
          profit_percent |-> profit_percent(usdt_amount, buy_price, sell_price)]

\* ======================================================================
\* The retry combinator and the waiters, each called by itself
\* ======================================================================
main == <<settings, wallet, reliable, status, requests, sagas,
          pc, req, loc, journal, obs, result>>

Outcomes == {"ok", "RateLimitExceeded", "ExchangeError"}   \* of one invocation of func
Delays == {1, 2}                 \* initial_delay
Required == {1, 2}               \* required_confirmations
Expected == {0, 100}             \* expected_amount
Balances == {0, 98, 99, 100, 200}   \* free balances of the target asset
SimAmounts == {-100, 0, 1, 100}     \* usdt_amount of a simulated execution
SimPrices == {0, 100, 105, 300}     \* recorded prices, in cents
Mills == {-6, -4, 0, 4, 6}          \* moves of a quote, in tenths of a cent
Quotes == {[ask_move |-> a, bid_move |-> b, priced |-> p] :
              a \in Mills, b \in Mills, p \in BOOLEAN}
NotSeen == [at_elapsed |-> -1]

\* The connection cache, for one venue.  Connections are numbered in the order
\* of their construction; exchange_instances is the number of the connection
\* under the venue's key, 0 when the key is absent.
Callers == {1, 2}                \* executions that call get_exchange_instance
load_markets_retries == 3        \* `max_retries = 3` of the load_markets loop
\* load_markets returns with the venue's markets, returns with none (the
\* venue lists no market), or raises
LoadOutcomes == {"ok", "no_markets", "NetworkError"}
\* the health check of a cached connection: `instance.markets` is there, is
\* missing or empty, or reading it raised
HealthChecks(loaded) == {IF loaded THEN "valid" ELSE "invalid", "raised"}
NoCaller == [at |-> "call", instance |-> 0, attempt |-> 0, out |-> 0]

\* Two sagas that fund the same venue with the same asset: each has broadcast
\* a transfer of `expected` units and calls wait_for_deposit_credit; free is
\* the venue's free balance of the asset, which both waiters read.
Waiters == {1, 2}
NoWaiter == [sub |-> "begin", initial |-> 0, elapsed |-> 0, slow |-> 0, credited |-> FALSE]

\* The settings endpoints.  Numbers with decimals are in hundredths.
\* BotSettings(), without its id
BotSettings ==
    [is_live_mode |-> FALSE, telegram_chat_id |-> "", telegram_enabled |-> FALSE,
     min_spread_threshold |-> 50,
     max_trade_amount |-> 100000, slippage_tolerance |-> 50, updated_at |-> 0]

\* the fields SettingsUpdate declares
SettingsUpdate == {"is_live_mode", "telegram_chat_id", "telegram_enabled",
                   "min_spread_threshold", "max_trade_amount", "slippage_tolerance"}

\* what find_one returns when the collection is empty
NoDocument == [none |-> TRUE]

\* the JSON bodies of PUT /api/settings: any of four fields, each with a new value
SettingsValues == [min_spread_threshold |-> 75, target_sell_spread |-> 9000,
                   spread_check_interval |-> 15, max_wait_time |-> 7200]
SettingsBodies ==
    {[k \in K |-> SettingsValues[k]] : K \in SUBSET (DOMAIN SettingsValues) \ {{}}}

\* `settings_update.model_dump()` without the entries that are None: the
\* model keeps the declared fields of the body and ignores the others
model_dump(body) == [k \in DOMAIN body \cap SettingsUpdate |-> body[k]]

\* `update_one({}, {"$set": update_data}, upsert=True)`
update_one(document, update_data) ==
    IF document = NoDocument THEN update_data ELSE update_data @@ document

\* The exchange and wallet endpoints.  Every value of a document is a string.
\* what the clients send: the credentials, and the address of the wallet
\* ("" when the body has none)
ApiKeys == {"key1"}
ApiSecrets == {"secret1"}
PrivateKeys == {"pk1", "pk2"}
Addresses == {"", "0xvalid", "invalid"}

\* fernet.encrypt: a token from which the holder of the key reads the data
encrypt_data(data) == "fernet:" \o data

\* hashlib.sha256(...).hexdigest()[:40]
hexdigest(data) == IF data = "pk1" THEN "digest1" ELSE "digest2"

\* bsc_service.is_valid_address
is_valid_address(address) == address = "0xvalid"

\* Exchange(...).model_dump()
Exchange(name, api_key_encrypted, api_secret_encrypted, additional_params_encrypted) ==
    [id |-> "uuid", name |-> name, api_key_encrypted |-> api_key_encrypted,
     api_secret_encrypted |-> api_secret_encrypted,
     additional_params_encrypted |-> additional_params_encrypted,
     is_active |-> "true", created_at |-> "now"]

\* WalletConfig(...).model_dump()
WalletConfig(address, private_key_encrypted) ==
    [id |-> "uuid", address |-> address, private_key_encrypted |-> private_key_encrypted,
     balance_bnb |-> "0.0", balance_usdt |-> "0.0", created_at |-> "now", updated_at |-> "now"]

\* a projection of find that leaves the encrypted secret in
exchanges_projection_partial == {"_id", "api_key_encrypted", "additional_params_encrypted"}

\* the fields the projection of `db.exchanges.find` takes out
exchanges_projection ==
    {"_id", "api_key_encrypted", "api_secret_encrypted", "additional_params_encrypted"}

\* the fields the projection of `db.wallet.find_one` takes out
wallet_projection == {"_id", "private_key_encrypted"}

\* a document without the fields of a projection
Project(document, excluded) == [k \in DOMAIN document \ excluded |-> document[k]]

NoResponse == [kind |-> "none", items |-> <<>>]

UnitCalls ==
    {[fn |-> "retry_with_backoff", at |-> "call", max_retries |-> m, initial_delay |-> d,
      attempt |-> 0, outcomes |-> <<>>, slept |-> <<>>, out |-> <<>>] :
        m \in 0..MaxAttempts, d \in Delays}
    \cup {[fn |-> "wait_for_blockchain_confirmation", at |-> "poll", required |-> r,
           elapsed |-> 0, seen |-> NotSeen, out |-> <<>>] : r \in Required}
    \cup {[fn |-> "wait_for_deposit_credit", at |-> "begin", expected |-> x, initial |-> 0,
           first |-> NotSeen, elapsed |-> 0, seen |-> NotSeen, out |-> <<>>] : x \in Expected}
    \cup {[fn |-> "wait_for_withdrawal_completion", at |-> "poll",
           elapsed |-> 0, seen |-> NotSeen, out |-> <<>>]}
    \cup {[fn |-> "execute_real_arbitrage", at |-> "price_check", opportunity |-> o,
           ticker |-> <<>>, orders |-> <<>>, out |-> <<>>] : o \in {1, 2, 3}}
    \cup {[fn |-> "execute_simulated_arbitrage", at |-> "call", usdt_amount |-> a,
           buy_price |-> b, sell_price |-> c, first |-> <<>>, out |-> <<>>] :
             a \in SimAmounts, b \in SimPrices, c \in SimPrices}
    \cup {[fn |-> "check_arbitrage_profitability", at |-> "call", opportunity |-> o,
           usdt_amount |-> a, reply |-> <<>>, out |-> <<>>] :
             o \in {1, 2, 3}, a \in Amounts}
    \cup {[fn |-> "settings", at |-> "call", document |-> d, body |-> b,
           put |-> NoDocument, got |-> NoDocument] :
             d \in {NoDocument, BotSettings}, b \in SettingsBodies}
    \cup {[fn |-> "concurrent_deposits", at |-> "running", expected |-> x, free |-> 0,
           waiters |-> [w \in Waiters |-> NoWaiter]] : x \in Expected \ {0}}
    \cup {[fn |-> "credentials", at |-> "serving", calls |-> 0, exchanges |-> <<>>,
           wallet_doc |-> NoDocument, response |-> NoResponse]}
    \cup {[fn |-> "get_exchange_instance", at |-> "serving", exchange_instances |-> 0,
           made |-> 0, markets |-> {}, cached |-> {}, closed |-> {},
           detected |-> {},
           callers |-> [c \in Callers |-> NoCaller]]}

UnitInit ==
    /\ unit \in UnitCalls
    /\ settings = [is_live_mode |-> TRUE, telegram |-> FALSE]
    /\ wallet = TRUE
    /\ reliable = FALSE
    /\ status = [o \in OppIds |-> "detected"]
    /\ requests = 0
    /\ sagas = [o \in OppIds |-> 0]
    /\ pc = [e \in Execs |-> "idle"]
    /\ req = [e \in Execs |-> NoReq]
    /\ loc = [e \in Execs |-> NoLoc]
    /\ journal = [e \in Execs |-> <<>>]
    /\ obs = [e \in Execs |-> NoObs]
    /\ result = [e \in Execs |-> NoResult]

\* `for attempt in range(max_retries)`: one invocation of func and what the
\* loop does with its outcome.  The value and the error of invocation n are
\* told apart by n.
retry_with_backoff_loop ==
    /\ unit.fn = "retry_with_backoff"
    /\ unit.at = "call"
    /\ UNCHANGED main
    /\ IF unit.attempt >= unit.max_retries
       THEN unit' = [unit EXCEPT !.at = "returned", !.out = <<"None">>]
       ELSE \E outcome \in Outcomes :
              LET n == unit.attempt + 1
                  called == [unit EXCEPT !.outcomes = Append(@, outcome)]
                  pass == retry_with_backoff(unit.max_retries, unit.initial_delay,
                                             unit.attempt, outcome)
              IN unit' = CASE pass.next = "return" ->
                                [called EXCEPT !.at = "returned", !.out = <<"value", n>>]
                           [] pass.next = "raise" ->
                                [called EXCEPT !.at = "raised", !.out = <<outcome, n>>]
                           [] OTHER ->
                                [called EXCEPT !.attempt = n, !.slept = Append(@, pass.delay)]


\* a sleep that takes no time
no_sleep(elapsed, interval, timeout) == {elapsed, elapsed + interval + timeout}

\* the clock after `await asyncio.sleep(interval)` of a waiter called by
\* itself: the pass took the interval, or so long that the ceiling has passed
Later(elapsed, interval, timeout) == {elapsed + interval, elapsed + interval + timeout}

\* What one pass of the loop of wait_for_blockchain_confirmation gets from the
\* chain: get_transaction_receipt or block_number raised (then there is no
\* receipt to look at), or a receipt or none, and the depth of its block.
ConfirmationReplies ==
    {[raised |-> r, receipt |-> c, depth |-> d] : r \in BOOLEAN, c \in BOOLEAN, d \in Depths}
        \ {q \in [raised : {TRUE}, receipt : BOOLEAN, depth : Depths] : q.receipt \/ q.depth # 0}

wait_for_blockchain_confirmation_loop ==
    /\ unit.fn = "wait_for_blockchain_confirmation"
    /\ unit.at = "poll"
    /\ UNCHANGED main
    /\ IF ~within(unit.elapsed, CONFIRMATION_TIMEOUT)
       THEN unit' = [unit EXCEPT !.at = "raised",
                                 !.out = saga_error("confirm", "", "timeout")]
       ELSE \E reply \in ConfirmationReplies :
              LET poll == confirmation_poll(reply.receipt, reply.depth, unit.required)
                  polled == [unit EXCEPT !.seen = [at_elapsed |-> unit.elapsed] @@ reply]
              IN IF poll.next = "return"
                 THEN unit' = [polled EXCEPT !.at = "returned", !.out = <<"True">>]
                 ELSE \E t \in Later(unit.elapsed, CONFIRMATION_POLL, CONFIRMATION_TIMEOUT) :
                         unit' = [polled EXCEPT !.elapsed = t]

wait_for_deposit_credit_loop ==
    /\ unit.fn = "wait_for_deposit_credit"
    /\ unit.at \in {"begin", "poll"}
    /\ UNCHANGED main
    /\ IF unit.at = "begin"
       THEN \E raised \in BOOLEAN, free \in Balances :
              unit' = [unit EXCEPT !.at = "poll", !.initial = initial_snapshot(raised, free),
                                   !.first = [at_elapsed |-> 0, raised |-> raised,
                                              free |-> free]]
       ELSE IF ~within(unit.elapsed, DEPOSIT_TIMEOUT)
       THEN unit' = [unit EXCEPT !.at = "raised",
                                 !.out = saga_error("deposit", "", "timeout")]
       ELSE \E raised \in BOOLEAN, free \in Balances :
              LET poll == deposit_poll(raised, unit.initial, free, unit.expected)
                  polled == [unit EXCEPT !.seen = [at_elapsed |-> unit.elapsed,
                                                   raised |-> raised, free |-> free]]
              IN IF poll.next = "return"
                 THEN unit' = [polled EXCEPT !.at = "returned", !.out = <<"True">>]
                 ELSE \E t \in Later(unit.elapsed, DEPOSIT_POLL, DEPOSIT_TIMEOUT) :
                         unit' = [polled EXCEPT !.elapsed = t]

wait_for_withdrawal_completion_loop ==
    /\ unit.fn = "wait_for_withdrawal_completion"
    /\ unit.at = "poll"
    /\ UNCHANGED main
    /\ IF ~within(unit.elapsed, WITHDRAWAL_TIMEOUT)
       THEN unit' = [unit EXCEPT !.at = "raised",
                                 !.out = saga_error("wcomplete", "", "timeout")]
       ELSE \E withdrawal \in WithdrawalReplies :
              LET poll == withdrawal_poll(withdrawal)
                  polled == [unit EXCEPT !.seen = [at_elapsed |-> unit.elapsed,
                                                   reply |-> withdrawal]]
              IN IF poll.next = "return"
                 THEN unit' = [polled EXCEPT !.at = "returned", !.out = <<poll.value>>]
                 ELSE \E t \in Later(unit.elapsed, WITHDRAWAL_POLL, WITHDRAWAL_TIMEOUT) :
                         unit' = [polled EXCEPT !.elapsed = t]

\* execute_simulated_arbitrage on the same opportunity and amount, twice
execute_simulated_arbitrage_twice ==
    /\ unit.fn = "execute_simulated_arbitrage"
    /\ unit.at \in {"call", "again"}
    /\ UNCHANGED main
    /\ LET res == simulated_result(unit.usdt_amount, unit.buy_price, unit.sell_price)
       IN IF unit.at = "call"
          THEN unit' = [unit EXCEPT !.at = "again", !.first = res]
          ELSE unit' = [unit EXCEPT !.at = "returned", !.out = res]

\* execute_real_arbitrage with both venues available: the price check, the
\* market buy, the market sell
execute_real_arbitrage_steps ==
    /\ unit.fn = "execute_real_arbitrage"
    /\ unit.at \in {"price_check", "buy", "sell"}
    /\ UNCHANGED main
    /\ LET opp == Opportunities[unit.opportunity]
           raised(text) == [unit EXCEPT !.at = "raised", !.out = text]
       IN CASE unit.at = "price_check" ->
                 \E ticker \in Quotes :
                    LET check == price_check(ticker, 10 * opp.buy_price, 10 * opp.sell_price)
                        seen == [unit EXCEPT !.ticker = ticker]
                    IN unit' = CASE check = "unpriced" ->
                                      [seen EXCEPT !.at = "raised",
                                                   !.out = <<"Unable to fetch current prices">>]
                                 [] check = "slippage" ->
                                      [seen EXCEPT !.at = "raised",
                                                   !.out = <<"Price slippage too high">>]
                                 [] OTHER -> [seen EXCEPT !.at = "buy"]
            [] unit.at = "buy" ->
                 \E outcome \in Outcomes :
                    LET placed == [unit EXCEPT !.orders = Append(@, "buy")]
                    IN unit' = IF outcome = "ok" THEN [placed EXCEPT !.at = "sell"]
                               ELSE [placed EXCEPT !.at = "raised",
                                       !.out = <<"Buy order failed:", opp.buy_exchange, outcome>>]
            [] unit.at = "sell" ->
                 \E outcome \in Outcomes :
                    LET placed == [unit EXCEPT !.orders = Append(@, "sell")]
                    IN unit' = IF outcome = "ok"
                               THEN [placed EXCEPT !.at = "returned", !.out = <<"completed">>]
                               ELSE [placed EXCEPT !.at = "raised",
                                       !.out = <<"Sell order failed:", opp.sell_exchange, outcome>>]

\* One caller of get_exchange_instance runs from one await to the next: the
\* look into the cache up to `await db.exchanges.find_one`, the construction
\* up to `await instance.load_markets()`, and each load up to the sleep before
\* the next one or up to the store into the cache.  `markets` holds the
\* connections whose markets are loaded, `cached` those that were ever stored
\* under the key, `detected` those that a health check found without markets;
\* out = 0 is the None the caller gets.  The close and the del of the except
\* branch of the health check are taken as one step.
get_exchange_instance(c) ==
    LET me == unit.callers[c]
        to(u, caller) == [u EXCEPT !.callers[c] = caller]
        returned(u, instance) == to(u, [me EXCEPT !.at = "returned", !.out = instance])
        instance == unit.exchange_instances
    IN CASE me.at = "call" ->
              IF instance = 0
              THEN unit' = to(unit, [me EXCEPT !.at = "find_one"])
              ELSE \E check \in HealthChecks(instance \in unit.markets) :
                     CASE check = "valid" -> unit' = returned(unit, instance)
                       [] check = "raised" ->
                            unit' = to([unit EXCEPT !.closed = @ \cup {instance},
                                                    !.exchange_instances = 0],
                                       [me EXCEPT !.at = "find_one"])
                       [] OTHER ->
                            unit' = to([unit EXCEPT !.detected = @ \cup {instance}],
                                       [me EXCEPT !.at = "find_one"])
         [] me.at = "find_one" ->
              \E exchange_doc \in BOOLEAN :
                 IF ~exchange_doc
                 THEN unit' = returned(unit, 0)
                 ELSE unit' = to([unit EXCEPT !.made = @ + 1],
                                 [me EXCEPT !.at = "load_markets",
                                            !.instance = unit.made + 1])
         [] me.at = "load_markets" ->
              \E outcome \in LoadOutcomes :
                 IF outcome \in {"ok", "no_markets"}
                 THEN unit' = returned([unit EXCEPT !.markets = IF outcome = "ok"
                                                                THEN @ \cup {me.instance}
                                                                ELSE @,
                                                    !.exchange_instances = me.instance,
                                                    !.cached = @ \cup {me.instance}],
                                       me.instance)
                 ELSE IF me.attempt = load_markets_retries - 1
                 THEN unit' = returned(unit, 0)
                 ELSE unit' = to(unit, [me EXCEPT !.attempt = @ + 1])
         [] OTHER -> FALSE

get_exchange_instance_calls ==
    /\ unit.fn = "get_exchange_instance"
    /\ unit.at = "serving"
    /\ UNCHANGED main
    /\ \E c \in Callers : get_exchange_instance(c)

\* close_exchange_instances at shutdown, when no call is under way: the
\* connection under the key is closed and the cache cleared
close_exchange_instances ==
    /\ unit.fn = "get_exchange_instance"
    /\ unit.at = "serving"
    /\ \A c \in Callers : unit.callers[c].at = "returned"
    /\ UNCHANGED main
    /\ unit' = [unit EXCEPT !.at = "shutdown",
                            !.closed = @ \cup (IF unit.exchange_instances = 0 THEN {}
                                               ELSE {unit.exchange_instances}),
                            !.exchange_instances = 0]

\* the venue credits the deposit of saga w to the account
concurrent_venue_credit ==
    /\ unit.fn = "concurrent_deposits"
    /\ UNCHANGED main
    /\ \E w \in Waiters :
          /\ ~unit.waiters[w].credited
          /\ unit' = [unit EXCEPT !.free = @ + unit.expected,
                                  !.waiters[w].credited = TRUE]

\* wait_for_deposit_credit of saga w, from one fetch_balance to the next
concurrent_wait_for_deposit_credit ==
    /\ unit.fn = "concurrent_deposits"
    /\ UNCHANGED main
    /\ \E w \in Waiters :
         LET me == unit.waiters[w]
         IN /\ me.sub \in {"begin", "poll"}
            /\ IF me.sub = "begin"
               THEN \E raised \in BOOLEAN :
                      unit' = [unit EXCEPT !.waiters[w].sub = "poll",
                                           !.waiters[w].initial =
                                               initial_snapshot(raised, unit.free)]
               ELSE IF ~within(me.elapsed, DEPOSIT_TIMEOUT)
               THEN unit' = [unit EXCEPT !.waiters[w].sub = "raised"]
               ELSE \E raised \in BOOLEAN :
                      IF deposit_poll(raised, me.initial, unit.free, unit.expected).next
                            = "return"
                      THEN unit' = [unit EXCEPT !.waiters[w].sub = "returned"]
                      ELSE \E l \in Sleeps(me, DEPOSIT_POLL, DEPOSIT_TIMEOUT) :
                              unit' = [unit EXCEPT !.waiters[w] = l]

\* PUT /api/settings
update_settings ==
    /\ unit.fn = "settings"
    /\ unit.at = "call"
    /\ UNCHANGED main
    /\ LET update_data == model_dump(unit.body) @@ [updated_at |-> 1]
           stored == update_one(unit.document, update_data)
       IN unit' = [unit EXCEPT !.at = "put", !.document = stored, !.put = stored]

\* GET /api/settings
get_settings ==
    /\ unit.fn = "settings"
    /\ unit.at = "put"
    /\ UNCHANGED main
    /\ unit' = [unit EXCEPT !.at = "returned",
                            !.got = IF unit.document = NoDocument THEN BotSettings
                                    ELSE unit.document]

\* check_arbitrage_profitability called by itself: the fee lookups raise or
\* succeed, and the buy venue's currency entry reports a fee or none
check_arbitrage_profitability_call ==
    /\ unit.fn = "check_arbitrage_profitability"
    /\ unit.at = "call"
    /\ UNCHANGED main
    /\ \E reply \in CurrencyReplies :
          unit' = [unit EXCEPT
                     !.at = "returned",
                     !.reply = reply,
                     !.out = check_arbitrage_profitability(
                                 Opportunities[unit.opportunity], unit.usdt_amount,
                                 [ok |-> reply.ok, fee |-> reported_fee(reply.token_info)])]

\* the endpoints are called in any order, MaxEndpointCalls times in all
Serving ==
    /\ unit.fn = "credentials"
    /\ unit.calls < MaxEndpointCalls
    /\ UNCHANGED main

\* POST /api/exchanges
create_exchange ==
    /\ Serving
    /\ \E api_key \in ApiKeys, api_secret \in ApiSecrets, additional_params \in {"", "{passphrase}"} :
          LET exchange == Exchange("binance", encrypt_data(api_key), encrypt_data(api_secret),
                                   IF additional_params # ""
                                   THEN encrypt_data(additional_params) ELSE "None")
          IN unit' = [unit EXCEPT
                        !.calls = @ + 1,
                        !.exchanges = Append(@, exchange),
                        !.response = [kind |-> "dict",
                                      items |-> <<[id |-> exchange.id, name |-> exchange.name,
                                                   is_active |-> exchange.is_active,
                                                   created_at |-> exchange.created_at]>>]]

\* GET /api/exchanges
get_exchanges ==
    /\ Serving
    /\ unit' = [unit EXCEPT
                  !.calls = @ + 1,
                  !.response = [kind |-> "list",
                                items |-> [n \in DOMAIN unit.exchanges |->
                                             Project(unit.exchanges[n], exchanges_projection)]]]

\* POST /api/wallet
save_wallet_config ==
    /\ Serving
    /\ \E private_key \in PrivateKeys, given \in Addresses :
          IF given # "" /\ ~is_valid_address(given)
          THEN unit' = [unit EXCEPT
                          !.calls = @ + 1,
                          !.response = [kind |-> "error",
                                        items |-> <<[detail |-> "Invalid BSC address format"]>>]]
          ELSE LET address == IF given = "" THEN "0x" \o hexdigest(private_key) ELSE given
                   wallet_config == WalletConfig(address, encrypt_data(private_key))
               IN unit' = [unit EXCEPT
                             !.calls = @ + 1,
                             !.wallet_doc = update_one(@, wallet_config),
                             !.response = [kind |-> "dict",
                                           items |-> <<[id |-> wallet_config.id,
                                                        address |-> wallet_config.address,
                                                        balance_bnb |-> wallet_config.balance_bnb,
                                                        balance_usdt |-> wallet_config.balance_usdt]>>]]

\* GET /api/wallet
get_wallet_config ==
    /\ Serving
    /\ unit' = [unit EXCEPT
                  !.calls = @ + 1,
                  !.response = IF unit.wallet_doc = NoDocument
                               THEN [kind |-> "null", items |-> <<>>]
                               ELSE [kind |-> "dict",
                                     items |-> <<Project(unit.wallet_doc, wallet_projection)>>]]

UnitNext ==
    \/ create_exchange
    \/ get_exchanges
    \/ save_wallet_config
    \/ get_wallet_config
    \/ update_settings
    \/ get_settings
    \/ concurrent_venue_credit
    \/ concurrent_wait_for_deposit_credit
    \/ get_exchange_instance_calls
    \/ close_exchange_instances
    \/ check_arbitrage_profitability_call
    \/ retry_with_backoff_loop
    \/ wait_for_blockchain_confirmation_loop
    \/ wait_for_deposit_credit_loop
    \/ wait_for_withdrawal_completion_loop
    \/ execute_simulated_arbitrage_twice
    \/ execute_real_arbitrage_steps

\* every sleep of a call ends, and the call goes on
UnitSpec == UnitInit /\ [][UnitNext]_vars /\ WF_vars(UnitNext)

\* ======================================================================
\* Properties
\* ======================================================================
HasRequest(e) == req[e].opportunity_id \in OppIds
Opp(e) == Opportunities[req[e].opportunity_id]

\* an opportunity whose buy or sell price is missing, zero or negative
InvalidPrices(opportunity) ==
    \/ "buy_price" \notin DOMAIN opportunity
    \/ "sell_price" \notin DOMAIN opportunity
    \/ opportunity.buy_price <= 0
    \/ opportunity.sell_price <= 0

IsInvalidOpportunity(r) ==
    /\ r.kind = "error" /\ r.code = 400
    /\ r.detail \in {<<"Invalid opportunity: buy price is missing or zero. Cannot execute.">>,
                     <<"Invalid opportunity: sell price is missing or zero. Cannot execute.">>}

IsConfirmationRequired(r) ==
    /\ r.kind = "error" /\ r.code = 400
    /\ r.detail = <<"Live trading requires confirmation. Set 'confirmed: true' to proceed with real trades.">>

NoSideEffect(e) ==
    /\ journal[e] = <<>>
    /\ ~obs[e].touched
    /\ obs[e].mutations = 0
    /\ obs[e].notified = 0

\* C1: an execute call on an opportunity whose buy or sell price is missing,
\* zero or negative has failed with InvalidOpportunity, in every mode and for
\* every confirmed flag; no gateway call was made, no journal entry was
\* appended and the status of the opportunity is still the one it had.
C1_InvalidOpportunity ==
    \A e \in Execs :
        (HasRequest(e) /\ InvalidPrices(Opp(e))) =>
            /\ pc[e] = "done"
            /\ IsInvalidOpportunity(result[e])
            /\ NoSideEffect(e)
            /\ status[req[e].opportunity_id] = "detected"

C1_Witness ==
    \E e \in Execs :
        /\ HasRequest(e) /\ pc[e] = "done"
        /\ "buy_price" \in DOMAIN Opp(e) /\ Opp(e).buy_price < 0
        /\ settings.is_live_mode /\ req[e].confirmed
        /\ IsInvalidOpportunity(result[e])

\* C2 as stated: in live mode every execute call with confirmed = false
\* fails with ConfirmationRequired, whatever the prices of the opportunity.
C2_Original ==
    \A e \in Execs :
        (HasRequest(e) /\ settings.is_live_mode /\ ~req[e].confirmed) =>
            (pc[e] = "done" /\ IsConfirmationRequired(result[e]))

\* C2 amended: in live mode every execute call with confirmed = false on an
\* opportunity whose buy and sell prices are present and positive fails with
\* ConfirmationRequired, whatever its spread and profitability.
C2_ConfirmationRequired ==
    \A e \in Execs :
        (HasRequest(e) /\ settings.is_live_mode /\ ~req[e].confirmed
            /\ ~InvalidPrices(Opp(e))) =>
            (pc[e] = "done" /\ IsConfirmationRequired(result[e]))

C2_Witness ==
    \E e \in Execs :
        /\ HasRequest(e) /\ settings.is_live_mode /\ ~req[e].confirmed
        /\ req[e].opportunity_id = 1 /\ req[e].usdt_amount = 100
        /\ IsConfirmationRequired(result[e])

\* C3: the step in which execute fails with ConfirmationRequired changes no
\* status, appends no journal entry, sends no notification and makes no
\* gateway call.
C3_ConfirmationNoSideEffect ==
    [][\A e \in Execs :
          (requests' = requests + 1 /\ e = Lowest(Free)
              /\ IsConfirmationRequired(result'[e])) =>
              /\ status' = status
              /\ journal'[e] = <<>>
              /\ obs'[e] = NoObs
              /\ pc'[e] = "done"]_vars

C3_Witness ==
    \E e \in Execs :
        /\ pc[e] = "done" /\ IsConfirmationRequired(result[e])
        /\ status[req[e].opportunity_id] = "detected"
        /\ settings.telegram

\* The assessment of a live execution has a computed net profit <= 0: the one
\* the full-transfer variant computed from the fees, or, where the code
\* computes none, the one every fee reply of the venues leads to.
UnprofitableAssessment(e) ==
    IF loc[e].variant = "full"
    THEN loc[e].assess.computed /\ loc[e].assess.net_profit <= 0
    ELSE \A fee \in WithdrawalFees :
            NetProfitScaled(Opp(e), req[e].usdt_amount, fee) <= 0

\* C4: a live execution (full-transfer or simplified) whose profitability
\* assessment has a computed net profit <= 0 makes no gateway mutation call.
C4_NotProfitableNoMutation ==
    \A e \in Execs :
        (loc[e].variant \in {"full", "simplified"} /\ UnprofitableAssessment(e)) =>
            obs[e].mutations = 0

\* The steps of the full-transfer sequence, numbered as in the specification:
\* the step a journal entry belongs to, the entry that records the success of
\* a step, and the step of each call of the try block.
StepNames(opportunity) ==
    [address_buy |-> "get_deposit_address_" \o opportunity.buy_exchange,
     address_sell |-> "get_deposit_address_" \o opportunity.sell_exchange,
     deposit_buy |-> "wait_deposit_" \o opportunity.buy_exchange,
     deposit_sell |-> "wait_deposit_" \o opportunity.sell_exchange,
     withdraw_buy |-> "withdraw_from_" \o opportunity.buy_exchange,
     withdraw_sell |-> "withdraw_from_" \o opportunity.sell_exchange,
     status_buy |-> "withdraw_status_" \o opportunity.buy_exchange,
     status_sell |-> "withdraw_status_" \o opportunity.sell_exchange]

StepOfEntry(en, names) ==
    LET submitting == en.status \in {"started", "submitted", "failed"}
    IN CASE en.step = "profitability_check" -> 1
         [] en.step \in {"step_1_fund_buy_exchange", names.address_buy} -> 2
         [] en.step = "step_1_blockchain_confirm" -> 3
         [] en.step = names.deposit_buy -> 4
         [] en.step = "step_3_buy_token" -> 5
         [] en.step = names.withdraw_buy /\ submitting -> 6
         [] en.step = names.withdraw_buy /\ ~submitting -> 7
         [] en.step = names.status_buy -> 7
         [] en.step = "step_4_blockchain_confirm" -> 8
         [] en.step \in {"step_6_send_to_sell_exchange", names.address_sell} -> 9
         [] en.step = "step_6_blockchain_confirm" -> 10
         [] en.step = names.deposit_sell -> 11
         [] en.step = "step_8_sell_token" -> 12
         [] en.step = "step_9_withdraw_profit" -> 13
         [] en.step = names.withdraw_sell /\ submitting -> 13
         [] en.step = names.withdraw_sell /\ ~submitting -> 14
         [] en.step \in {names.status_sell, "step_9_blockchain_confirm"} -> 14
         [] en.step = "completed" -> 15
         [] OTHER -> 0

SuccessOfStep(names) ==
    <<<<"profitability_check", "completed">>,
      <<"step_1_fund_buy_exchange", "broadcast">>,
      <<"step_1_blockchain_confirm", "completed">>,
      <<names.deposit_buy, "completed">>,
      <<"step_3_buy_token", "completed">>,
      <<names.withdraw_buy, "submitted">>,
      <<names.withdraw_buy, "completed">>,
      <<"step_4_blockchain_confirm", "completed">>,
      <<"step_6_send_to_sell_exchange", "broadcast">>,
      <<"step_6_blockchain_confirm", "completed">>,
      <<names.deposit_sell, "completed">>,
      <<"step_8_sell_token", "completed">>,
      <<names.withdraw_sell, "submitted">>,
      <<"step_9_blockchain_confirm", "completed">>,
      <<"completed", "completed">>>>

StepOfCall(i) ==
    IF i = 0 THEN 1
    ELSE <<2, 2, 2, 3, 4, 5, 6, 7, 8, 9, 9, 10, 11, 12, 13, 13, 14, 14>>[i]

\* SucceededAt(e)[k]: the position of the first journal entry of e that records
\* the success of step k, or 0 when there is none
FirstAt(marks, mark) ==
    IF \E n \in DOMAIN marks : marks[n] = mark
    THEN CHOOSE n \in DOMAIN marks : marks[n] = mark /\ \A m \in 1..(n - 1) : marks[m] # mark
    ELSE 0

Marks(e) == [n \in DOMAIN journal[e] |-> <<journal[e][n].step, journal[e][n].status>>]

SucceededAt(e) ==
    LET success == SuccessOfStep(StepNames(Opp(e)))
    IN [k \in DOMAIN success |-> FirstAt(Marks(e), success[k])]

\* the journal of e holds an entry before place n that records the success of step k
SucceededBefore(j, success, k, n) ==
    \E m \in 1..(n - 1) : j[m].step = success[k][1] /\ j[m].status = success[k][2]

ElapsedKeys == {"failed_at_seconds", "elapsed_seconds", "total_wait_seconds"}

\* C6: when a live execution in which a step after the profitability check
\* failed has returned, the status of the opportunity is failed and the
\* journal holds a failure entry with the error text and the elapsed time.
C6_FailureJournaled ==
    \A e \in Execs :
        (pc[e] = "done" /\ loc[e].variant \in {"full", "simplified"}
            /\ obs[e].failSite >= 1) =>
            /\ status[req[e].opportunity_id] = "failed"
            /\ \E n \in DOMAIN journal[e] :
                  /\ journal[e][n].status = "failed"
                  /\ "error" \in journal[e][n].details
                  /\ journal[e][n].details \cap ElapsedKeys # {}

\* the errors execute returns when call i of the try block fails
ErrorsOfCall(e, i) ==
    LET venue == IF FullPlan[i].side = "buy" THEN Opp(e).buy_exchange
                 ELSE Opp(e).sell_exchange
    IN {<<"Arbitrage execution failed:">> \o saga_error(FullPlan[i].kind, venue, f) :
           f \in Failures(FullPlan[i].kind)}

\* C7: the error returned for a saga that failed at one step is an error that
\* a failure at no other step of the sequence returns.
C7_ErrorIdentifiesStep ==
    \A e \in Execs :
        (pc[e] = "done" /\ loc[e].variant = "full" /\ obs[e].failSite >= 1) =>
            \A i \in DOMAIN FullPlan :
                StepOfCall(i) # StepOfCall(obs[e].failSite) =>
                    result[e].detail \notin ErrorsOfCall(e, i)

AllowedTransition(s, t) ==
    \/ s = t
    \/ s = "detected" /\ t = "executing"
    \/ s = "executing" /\ t \in {"completed", "failed"}

C10_ConsumedOnce == \A o \in OppIds : sagas[o] <= 1

\* ----------------------------------------------------- the retry combinator
IsRetry == unit.fn = "retry_with_backoff"
Failed(n) == unit.outcomes[n] # "ok"

\* C18: for every max_retries >= 1, when func failed on its first
\* max_retries - 1 invocations and then returned, the combinator has returned
\* the value of that last invocation; when func failed on max_retries
\* invocations in a row, the combinator has raised the error of the last one.
C18_RetryResult ==
    (IsRetry /\ unit.max_retries >= 1 /\ Len(unit.outcomes) = unit.max_retries
        /\ \A n \in 1..(unit.max_retries - 1) : Failed(n))
    => IF Failed(unit.max_retries)
       THEN unit.at = "raised"
            /\ unit.out = <<unit.outcomes[unit.max_retries], unit.max_retries>>
       ELSE unit.at = "returned" /\ unit.out = <<"value", unit.max_retries>>

\* three attempts: two failures of different classes, then the value
C18_Witness ==
    /\ IsRetry
    /\ unit.max_retries = 3
    /\ unit.outcomes = <<"RateLimitExceeded", "ExchangeError", "ok">>
    /\ unit.at = "returned"
    /\ unit.out = <<"value", 3>>

\* C19: every wait of the combinator follows a failure that was not the last
\* attempt; after a rate-limit failure at attempt k (counted from 0) it lasts
\* initial_delay * 2^k, twice the wait after a rate-limit failure at attempt
\* k - 1, and after any other failure it lasts initial_delay.
C19_RetryDelays ==
    IsRetry =>
        /\ Len(unit.slept) = Len(unit.outcomes) - (IF unit.at = "call" \/ unit.outcomes = <<>> THEN 0 ELSE 1)
        /\ \A n \in 1..Len(unit.slept) :
              LET k == n - 1
              IN /\ Failed(n)
                 /\ k < unit.max_retries - 1
                 /\ unit.slept[n] = IF unit.outcomes[n] = "RateLimitExceeded"
                                    THEN unit.initial_delay * (2 ^ k)
                                    ELSE unit.initial_delay
                 /\ (n > 1 /\ unit.outcomes[n] = "RateLimitExceeded"
                           /\ unit.outcomes[n - 1] = "RateLimitExceeded")
                    => unit.slept[n] = 2 * unit.slept[n - 1]

\* rate limits at attempts 0, 1 and 2 with initial_delay 2: waits of 2, 4, 8
C19_Witness ==
    /\ IsRetry
    /\ unit.initial_delay = 2
    /\ unit.outcomes = <<"RateLimitExceeded", "RateLimitExceeded", "RateLimitExceeded">>
    /\ unit.slept = <<2, 4, 8>>

\* --------------------------------------------------- the withdrawal waiter
IsWithdrawalWait == unit.fn = "wait_for_withdrawal_completion"
Polled == unit.seen # NotSeen

\* C12 as stated: the withdrawal waiter returns only on a poll whose status is
\* one of ok, complete, completed, success, and returns the transaction hash
\* of that withdrawal; after a poll with any other status, or without a hash,
\* it has not returned, and it fails only at the timeout.
C12_Original ==
    IsWithdrawalWait =>
        /\ unit.at = "returned" =>
              /\ Polled /\ ~unit.seen.reply.raised
              /\ unit.seen.reply.status \in SuccessStatuses
              /\ unit.seen.reply.txid # ""
              /\ unit.out = <<unit.seen.reply.txid>>
        /\ unit.at = "raised" => unit.elapsed >= WITHDRAWAL_TIMEOUT

\* C12 amended: the withdrawal waiter returns exactly on a poll whose status,
\* written in lower case, is one of ok, complete, completed, success and which
\* carries a transaction hash, and it returns that hash; after any other poll
\* it has not returned, and it fails only at the timeout.
C12_WithdrawalSuccess ==
    IsWithdrawalWait =>
        /\ (Polled /\ ~unit.seen.reply.raised
              /\ Lower(unit.seen.reply.status) \in SuccessStatuses
              /\ unit.seen.reply.txid # "")
           <=> unit.at = "returned"
        /\ unit.at = "returned" => unit.out = <<unit.seen.reply.txid>>
        /\ unit.at = "raised" => unit.elapsed >= WITHDRAWAL_TIMEOUT

\* the venue spelled the status "OK" on the third poll, and the hash came back
C12_Witness ==
    /\ IsWithdrawalWait
    /\ unit.at = "returned"
    /\ unit.seen.reply.status = "OK"
    /\ unit.seen.at_elapsed = 2 * WITHDRAWAL_POLL
    /\ unit.out = <<"0xhash">>

\* C13: on the first poll that observes the status failed, canceled or
\* cancelled the wait of the withdrawal waiter has ended with a failure.
C13_TerminalFailure ==
    (IsWithdrawalWait /\ Polled /\ ~unit.seen.reply.raised
        /\ Lower(unit.seen.reply.status) \in FailureStatuses)
    => unit.at = "raised"

\* ------------------------------------------------- the confirmation waiter
IsConfirmationWait == unit.fn = "wait_for_blockchain_confirmation"

\* C16 as stated: the confirmation wait returns only on a poll at which the
\* transaction has a receipt and the number of blocks mined after the block
\* of the transaction is at least required_confirmations.
C16_Original ==
    (IsConfirmationWait /\ unit.at = "returned")
    => unit.seen.receipt /\ unit.seen.depth >= unit.required

\* C16 amended: the confirmation wait returns exactly on a poll at which the
\* transaction has a receipt and the number of blocks from the block of the
\* transaction up to the current block, both included, is at least
\* required_confirmations; a missing receipt or fewer blocks never yields
\* success.
C16_ConfirmationSuccess ==
    IsConfirmationWait =>
        (Polled /\ unit.seen.receipt /\ unit.seen.depth + 1 >= unit.required)
        <=> unit.at = "returned"

\* success with the default minimum of 1 while the block of the transaction is
\* the newest block, after one poll that found no receipt
C16_Witness ==
    /\ IsConfirmationWait
    /\ unit.required = MIN_CONFIRMATIONS
    /\ unit.at = "returned"
    /\ unit.seen.depth = 0
    /\ unit.seen.at_elapsed = CONFIRMATION_POLL

\* ------------------------------------------------------ the three waiters
IsWait == unit.fn \in {"wait_for_blockchain_confirmation", "wait_for_deposit_credit",
                       "wait_for_withdrawal_completion"}
Ceiling == CASE unit.fn = "wait_for_blockchain_confirmation" -> 600
             [] unit.fn = "wait_for_deposit_credit" -> 1800
             [] unit.fn = "wait_for_withdrawal_completion" -> 1800
TimeoutText == CASE unit.fn = "wait_for_blockchain_confirmation" ->
                      <<"Blockchain confirmation timeout after 600 seconds">>
                 [] unit.fn = "wait_for_deposit_credit" ->
                      <<"Deposit credit timeout after 1800 seconds">>
                 [] unit.fn = "wait_for_withdrawal_completion" ->
                      <<"Withdrawal timeout after 1800 seconds">>
\* the success condition of the waiter was observed on its last poll
SuccessSeen ==
    /\ Polled
    /\ CASE unit.fn = "wait_for_blockchain_confirmation" ->
              unit.seen.receipt /\ unit.seen.depth + 1 >= unit.required
         [] unit.fn = "wait_for_deposit_credit" ->
              ~unit.seen.raised
              /\ 100 * (unit.seen.free - unit.initial) >= 99 * unit.expected
         [] unit.fn = "wait_for_withdrawal_completion" ->
              ~unit.seen.reply.raised /\ unit.seen.reply.txid # ""
              /\ Lower(unit.seen.reply.status) \in SuccessStatuses

\* C17: each waiter makes no poll once the elapsed time has reached its
\* ceiling (600 s for the confirmation, 1800 s for the withdrawal and for the
\* deposit), it returns only when its success condition was observed, every
\* other end is the timeout error raised at or after the ceiling, and every
\* wait ends.
C17_HardTimeout ==
    /\ [](IsWait =>
            /\ unit.seen.at_elapsed < Ceiling
            /\ unit.at = "returned" => SuccessSeen
            /\ unit.at = "raised" => (unit.elapsed >= Ceiling /\ unit.out = TimeoutText
                                      /\ ~SuccessSeen)
            /\ unit.at \in {"begin", "poll", "returned", "raised"})
    /\ <>(IsWait => unit.at \in {"returned", "raised"})

\* 200 polls of the confirmation waiter, 3 s apart, none of them a success,
\* and the timeout error at 600 s
C17_Witness ==
    /\ IsConfirmationWait
    /\ unit.at = "raised"
    /\ unit.elapsed = CONFIRMATION_TIMEOUT
    /\ unit.seen.at_elapsed = CONFIRMATION_TIMEOUT - CONFIRMATION_POLL

\* ------------------------------------------------------------ back in the saga
\* C11: when execute returns for an execution that got past the gates, the
\* status of its opportunity is completed if and only if the settlement
\* result is returned and failed if and only if an error is returned; it is
\* not executing.
C11_TerminalStatus ==
    [][\A e \in Execs :
          (pc[e] \in {"completed", "raise"} /\ pc'[e] = "done")
          => LET o == req[e].opportunity_id
             IN /\ status'[o] = "completed" <=> result'[e].kind = "ok"
                /\ status'[o] = "failed" <=> result'[e].kind = "error"
                /\ status'[o] # "executing"]_vars

\* handler e makes a poll of the deposit waiter that ends the wait with success
DepositSucceeds(e) ==
    /\ Running(e, "deposit")
    /\ loc[e].sub = "poll"
    /\ loc'[e].ip = next_ip(loc[e].ip)

\* C14: a poll of the deposit waiter in a saga ends the wait with success only
\* if the free balance has risen by at least 99 percent of the expected
\* amount, and never while the balance is equal to or below the initial one.
C14_DepositIncrease ==
    [][\A e \in Execs :
          DepositSucceeds(e)
          => /\ 100 * (loc[e].bal - loc[e].initial) >= 99 * Units(req[e].usdt_amount)
             /\ loc[e].bal > loc[e].initial]_vars

\* C15: once the wallet transfer of a funding step is broadcast, the deposit
\* waiter has its snapshot of the free balance, and the snapshot is the
\* balance from before the broadcast, so that every credit the venue applied
\* since the broadcast is part of the increase.
C15_SnapshotBeforeBroadcast ==
    \A e \in Execs :
        /\ (pc[e] = "run" /\ loc[e].owed)
           => (Op(e).kind = "deposit" /\ loc[e].sub = "poll")
        /\ (Running(e, "deposit") /\ loc[e].sub = "poll") => loc[e].initial = 0

LiveVariants == {"full", "simplified"}
Range(f) == {f[x] : x \in DOMAIN f}

\* C20: in every live variant, when the saga has failed with a
\* RateLimitExceeded error of a gateway call, that call was attempted
\* MAX_RETRIES times.
C20_RateLimitAfterRetries ==
    \A e \in Execs :
        (pc[e] \in {"full_except", "except", "raise"}
            /\ loc[e].variant \in LiveVariants
            /\ "RateLimitExceeded" \in Range(loc[e].exc))
        => loc[e].attempt + 1 = MAX_RETRIES

\* ------------------------------------------------------- the journal of a run
\* the entries of handler e that record the success of a step, in their order
SuccessEntries(e) ==
    LET success == SuccessOfStep(StepNames(Opp(e)))
        IsSuccess(mark) == mark \in Range(success)
    IN SelectSeq(Marks(e), IsSuccess)

\* a full-transfer execution in an environment where every call succeeds at
\* once and every wait resolves on its first poll
Smooth(e) == reliable /\ loc[e].variant = "full"
Returned(e) == pc[e] \in {"return", "completed"}

IsSimulated == unit.fn = "execute_simulated_arbitrage"
SimReturned == IsSimulated /\ unit.at = "returned" /\ unit.out.kind = "returned"
\* x is the integer nearest to a / b (b > 0)
Nearest(x, a, b) == 2 * Abs(x * b - a) <= b

\* C22 as stated: the result of a simulated execution is tokenAmount =
\* amount / buyPrice, sellValue = tokenAmount * sellPrice, profit =
\* sellValue - amount and profitPercent = profit / amount * 100, for amount
\* 100 at 1.00 and 1.05 it is 100, 105, 5 and 5, and a second run returns the
\* same.
C22_Original ==
    SimReturned =>
        /\ unit.out.sell_value * unit.buy_price = unit.usdt_amount * unit.sell_price * 10000
        /\ unit.out.profit = unit.out.sell_value - unit.usdt_amount * 10000
        /\ unit.out.profit_percent * unit.usdt_amount = unit.out.profit * 100
        /\ unit.out = unit.first

\* C22 amended: the result of a simulated execution is a function of the
\* amount and the two recorded prices: tokens_bought is amount / buyPrice
\* rounded to 8 decimals, sell_value and profit are amount * sellPrice /
\* buyPrice and amount * (sellPrice - buyPrice) / buyPrice rounded to 4
\* decimals, profit_percent is (sellPrice - buyPrice) / buyPrice * 100
\* rounded to 4 decimals for an amount above zero and 0 otherwise; for
\* amount 100 at 1.00 and 1.05 it is 100, 105, 5 and 5; a second run on the
\* same inputs returns the same result.
C22_SimulatedProfit ==
    SimReturned =>
        LET a == unit.usdt_amount
            b == unit.buy_price
            c == unit.sell_price
            res == unit.out
            tokens4 == res.tokens_bought.whole * 10000 + res.tokens_bought.frac8 \div 10000
        IN /\ res.usdt_invested = a
           /\ res.tokens_bought.negative = (a < 0)
           /\ res.tokens_bought.frac8 \in 0..99999999
           /\ Abs(tokens4 * b - Abs(a) * 1000000) <= b
           /\ Nearest(res.sell_value, a * c * 10000, b)
           /\ Nearest(res.profit, a * (c - b) * 10000, b)
           /\ IF a > 0 THEN Nearest(res.profit_percent, (c - b) * 1000000, b)
              ELSE res.profit_percent = 0
           /\ (a = 100 /\ b = 100 /\ c = 105)
              => /\ res.tokens_bought = [negative |-> FALSE, whole |-> 100, frac8 |-> 0]
                 /\ res.sell_value = 1050000
                 /\ res.profit = 50000
                 /\ res.profit_percent = 50000
           /\ (a = 100 /\ b = 300)
              => res.tokens_bought = [negative |-> FALSE, whole |-> 33, frac8 |-> 33333333]
           /\ res = unit.first

\* one USDT at 1.05 and 1.00: tokens 0.95238095, value 0.9524, loss 0.0476,
\* -4.7619 percent, all of them rounded
C22_Witness ==
    /\ SimReturned
    /\ unit.usdt_amount = 1 /\ unit.buy_price = 105 /\ unit.sell_price = 100
    /\ unit.out.tokens_bought = [negative |-> FALSE, whole |-> 0, frac8 |-> 95238095]
    /\ unit.out.sell_value = 9524
    /\ unit.out.profit = -476
    /\ unit.out.profit_percent = -47619

\* ------------------------------------------------------------- test mode
\* handler e executes a valid opportunity while the deployment is in test mode
TestModeExecution(e) ==
    ~settings.is_live_mode /\ HasRequest(e) /\ ~InvalidPrices(Opp(e))

\* C23: in test mode an execution of a valid opportunity, confirmed or not,
\* makes no exchange or blockchain gateway call, never fails, and when it has
\* run its journal is the seven entries validate_balance,
\* deposit_to_buy_exchange, place_buy_order, withdraw_to_wallet,
\* deposit_to_sell_exchange, place_sell_order, withdraw_profits, in this
\* order, each with status completed; before that the journal is empty.
C23_SimulatedSteps ==
    \A e \in Execs :
        TestModeExecution(e) =>
            /\ ~obs[e].touched /\ obs[e].mutations = 0 /\ obs[e].callOps = {}
            /\ pc[e] \in {"dispatch", "simulated", "return", "completed", "done"}
            /\ result[e].kind \in {"none", "ok"}
            /\ IF pc[e] \in {"dispatch", "simulated"}
               THEN journal[e] = <<>>
               ELSE /\ [n \in DOMAIN journal[e] |-> journal[e][n].step] = SimulatedSteps
                    /\ \A n \in DOMAIN journal[e] :
                          journal[e][n].status = "completed" /\ ~journal[e][n].is_live

\* an unconfirmed execution in test mode, with a wallet configured, has
\* returned its seven entries
C23_Witness ==
    \E e \in Execs :
        /\ TestModeExecution(e)
        /\ wallet
        /\ ~req[e].confirmed
        /\ pc[e] = "done"
        /\ result[e].kind = "ok"
        /\ Len(journal[e]) = 7

\* ------------------------------------------------- the simplified variant
IsSimplified == unit.fn = "execute_real_arbitrage"
Quoted == IsSimplified /\ unit.ticker # <<>>
\* the quote has moved by more than 0.5 percent of the recorded price (in
\* cents); the move is in tenths of a cent
Beyond(move, recorded) == 200 * Abs(move) > 10 * recorded

\* C24: in the simplified variant, when both quotes are there and the ask of
\* the buy venue or the bid of the sell venue has moved from the recorded
\* price by more than the tolerance, the execution has failed with the
\* slippage error and no order was placed; an order is placed only after
\* quotes that are both within the tolerance.
C24_SlippageGate ==
    Quoted =>
        LET opp == Opportunities[unit.opportunity]
            moved == \/ Beyond(unit.ticker.ask_move, opp.buy_price)
                     \/ Beyond(unit.ticker.bid_move, opp.sell_price)
        IN /\ (unit.ticker.priced /\ moved)
              => /\ unit.at = "raised"
                 /\ unit.out = <<"Price slippage too high">>
                 /\ unit.orders = <<>>
           /\ unit.orders # <<>> => (unit.ticker.priced /\ ~moved)
           /\ (unit.ticker.priced /\ ~moved) => unit.out # <<"Price slippage too high">>

\* the ask is unchanged and the bid of 1.05 has fallen by 0.6 cents (0.57
\* percent): rejected, no order
C24_Witness ==
    /\ Quoted
    /\ unit.opportunity = 1
    /\ unit.ticker = [ask_move |-> 0, bid_move |-> -6, priced |-> TRUE]
    /\ unit.at = "raised"
    /\ unit.orders = <<>>

\* ---------------------------------------------------------------- C25
IsAssessment == unit.fn = "check_arbitrage_profitability" /\ unit.at = "returned"

\* netProfit = grossRevenue - sellFee - notional - buyFee - withdrawalFee - gasFee,
\* multiplied by 2000 * buy_price, with the venue's fee whenever it reports one
StatedNetProfit(opportunity, usdt_amount, token_info) ==
    LET B == opportunity.buy_price
        S == opportunity.sell_price
        grossRevenue == 2000 * usdt_amount * S
        sellFee == 2 * usdt_amount * S * DefaultFeeRate
        notional == 2000 * usdt_amount * B
        buyFee == 2 * usdt_amount * B * DefaultFeeRate
        withdrawalFee == IF "fee" \in DOMAIN token_info THEN 20 * B * B * token_info.fee
                         ELSE 2000 * B * WithdrawalFeeEstimate
        gasFee == 1000 * B * GasFeeHalves
    IN grossRevenue - sellFee - notional - buyFee - withdrawalFee - gasFee

\* C25: when all fee lookups succeed, the assessment of a positive notional
\* is profitable exactly when netProfit = grossRevenue - sellFee - notional -
\* buyFee - withdrawalFee - gasFee is positive, where the withdrawal fee is the
\* fee the buy venue reports for the token whenever it reports one, a reported
\* fee of zero included, and the estimate of 5 only when the venue reports none.
C25_NetProfit ==
    (IsAssessment /\ unit.reply.ok /\ unit.usdt_amount > 0) =>
        LET net == StatedNetProfit(Opportunities[unit.opportunity], unit.usdt_amount,
                                   unit.reply.token_info)
        IN /\ unit.out.is_profitable = (net > 0)
           /\ unit.out.net_profit = Sign(net)

\* ---------------------------------------------------------------- C26
\* handler e ran the profitability assessment of the saga for a notional
\* other than 0 and got the estimate of the except branch: a lookup raised
LookupRaised(e) ==
    /\ HasRequest(e) /\ loc[e].variant = "full"
    /\ 0 \in obs[e].callOps
    /\ req[e].usdt_amount # 0 /\ ~loc[e].assess.computed

Gate(e, st) ==
    \E i \in DOMAIN journal[e] :
        journal[e][i].step = "profitability_check" /\ journal[e][i].status = st

\* C26: when a fee or currency lookup of the assessment raises, the assessment
\* still returns, with is_profitable = (spread_percent > 1.0); an opportunity
\* with a spread above 1.0 passes the gate and goes on to the funding step,
\* one with a spread of at most 1.0 is rejected as not profitable, before any
\* transfer or order.
C26_ConservativeEstimate ==
    \A e \in Execs :
        LookupRaised(e) =>
            /\ loc[e].assess.is_profitable = (Opp(e).spread_percent > 100)
            /\ loc[e].assess.net_profit = 0
            /\ Opp(e).spread_percent > 100 =>
                  /\ Gate(e, "completed") /\ ~Gate(e, "failed")
                  /\ loc[e].ip >= 1
                  /\ loc[e].exc # <<"Not profitable after fees">>
            /\ Opp(e).spread_percent <= 100 =>
                  /\ Gate(e, "failed") /\ ~Gate(e, "completed")
                  /\ loc[e].ip = 0
                  /\ loc[e].exc = <<"Not profitable after fees">>
                  /\ obs[e].mutations = 0
                  /\ status[req[e].opportunity_id] = "failed"

C26_Witness ==
    \E e \in Execs :
        /\ LookupRaised(e) /\ Opp(e).spread_percent > 100
        /\ Gate(e, "completed") /\ loc[e].ip = 1 /\ loc[e].sub = "begin"

\* ---------------------------------------------------------------- C27
IsCache == unit.fn = "get_exchange_instance"

\* connection i is being created by some caller
BeingCreated(i) ==
    \E c \in Callers : unit.callers[c].at = "load_markets" /\ unit.callers[c].instance = i

\* C27: under any interleaving of get_exchange_instance calls for a venue, no
\* second connection is created while one is cached or being created, a
\* caller that receives a connection receives the cached one, and every
\* connection that was stored in the cache is still the cached one or has
\* been closed.
C27_CacheSafe ==
    IsCache =>
        /\ Cardinality({i \in 1..unit.made :
                           unit.exchange_instances = i \/ BeingCreated(i)}) <= 1
        /\ \A c \in Callers :
              (unit.at = "serving" /\ unit.callers[c].at = "returned"
                 /\ unit.callers[c].out # 0)
                  => unit.callers[c].out = unit.exchange_instances
        /\ \A i \in unit.cached : unit.exchange_instances = i \/ i \in unit.closed

\* ---------------------------------------------------------------- C28
\* C28: when two sagas fund the same venue with the same asset, the
\* deposit-credit wait of a saga succeeds only after that saga's own deposit
\* has been credited, never on the balance increase of the other's deposit.
C28_OwnDepositCredited ==
    unit.fn = "concurrent_deposits" =>
        \A w \in Waiters :
            unit.waiters[w].sub = "returned" => unit.waiters[w].credited

\* ---------------------------------------------------------------- C29
\* the full-transfer saga of handler e has returned its result
SagaReturned(e) == HasRequest(e) /\ loc[e].variant = "full" /\ loc[e].ret.status = "completed"

\* the places of the journal of e that record step `step` with status st
Places(e, step, st) ==
    {i \in DOMAIN journal[e] : journal[e][i].step = step /\ journal[e][i].status = st}

\* the four hashes in the order of their production: funding transfer,
\* buy-venue withdrawal, sell-venue funding transfer, proceeds withdrawal
HashesInOrder(e) ==
    loc[e].ret.blockchain_transactions
        = <<"step_1_fund_buy_exchange", "withdraw_from_" \o Opp(e).buy_exchange,
            "step_6_send_to_sell_exchange", "withdraw_from_" \o Opp(e).sell_exchange>>

\* the confirmation wait on the fourth hash succeeded, after the proceeds
\* withdrawal completed and before the result
FourthConfirmed(e) ==
    \E i \in Places(e, "withdraw_from_" \o Opp(e).sell_exchange, "completed"),
       j \in Places(e, "step_9_blockchain_confirm", "completed"),
       k \in Places(e, "completed", "completed") : i < j /\ j < k

\* C29 as stated: the profit returned is the proceeds of the sell order less
\* the notional amount.
C29_Original ==
    \A e \in Execs :
        SagaReturned(e) =>
            /\ 10 * loc[e].ret.profit = loc[e].usdt_received - 100000 * req[e].usdt_amount
            /\ HashesInOrder(e)
            /\ FourthConfirmed(e)

\* C29 amended: on reaching Completed the saga returns the profit, which is
\* the proceeds reported by the sell order less the notional amount, rounded
\* to 4 decimals, together with the unrounded proceeds and the four hashes in
\* the order of their production; there is a result only after the
\* confirmation wait on the fourth hash has succeeded.
C29_SagaResult ==
    \A e \in Execs :
        /\ (HasRequest(e) /\ loc[e].variant = "full" /\ loc[e].ret.status # "none")
              => (SagaReturned(e) /\ pc[e] \in {"return", "completed", "done"})
        /\ SagaReturned(e) =>
            /\ loc[e].ret.profit
                  = RoundSigned(loc[e].usdt_received - 100000 * req[e].usdt_amount, 10)
            /\ loc[e].ret.usdt_received = loc[e].usdt_received
            /\ loc[e].ret.usdt_invested = req[e].usdt_amount
            /\ HashesInOrder(e)
            /\ FourthConfirmed(e)

\* a saga has returned proceeds with more than 4 decimals
C29_Witness ==
    \E e \in Execs :
        /\ SagaReturned(e) /\ Returned(e)
        /\ loc[e].usdt_received % 10 # 0
        /\ Len(loc[e].hashes) = 4

\* ---------------------------------------------------------------- C30
\* C30: after PUT /api/settings with values for min_spread_threshold,
\* target_sell_spread, spread_check_interval and max_wait_time, the settings
\* returned hold the supplied value of each of these fields, and GET
\* /api/settings includes target_sell_spread, spread_check_interval and
\* max_wait_time.
C30_SettingsRoundTrip ==
    (unit.fn = "settings" /\ unit.at = "returned") =>
        /\ \A k \in DOMAIN unit.body :
              k \in DOMAIN unit.put /\ unit.put[k] = unit.body[k]
        /\ {"target_sell_spread", "spread_check_interval", "max_wait_time"}
              \subseteq DOMAIN unit.got

\* ---------------------------------------------------------------- C31
\* the names under which a credential is stored or sent
CredentialFields == {"api_key_encrypted", "api_secret_encrypted", "private_key_encrypted",
                     "private_key", "api_key", "api_secret"}

\* the credentials, plain and encrypted
Credentials ==
    LET plain == ApiKeys \cup ApiSecrets \cup PrivateKeys
    IN plain \cup {encrypt_data(c) : c \in plain}

\* a document of a response carries a credential, under its name or as a value
Discloses(document) ==
    \/ DOMAIN document \cap CredentialFields # {}
    \/ \E k \in DOMAIN document : document[k] \in Credentials

\* C31: no response of the exchange create and list endpoints or of the wallet
\* save and get endpoints holds a stored credential: neither the fields
\* api_key_encrypted, api_secret_encrypted, private_key_encrypted nor a
\* credential itself, plain or encrypted, after every sequence of calls.
C31_NoCredentialInResponse ==
    unit.fn = "credentials" =>
        \A n \in DOMAIN unit.response.items : ~Discloses(unit.response.items[n])

\* an exchange and a wallet are stored with their encrypted credentials, and
\* GET /api/wallet has returned the wallet
C31_Witness ==
    /\ unit.fn = "credentials"
    /\ unit.exchanges # <<>>
    /\ unit.wallet_doc # NoDocument
    /\ Discloses(unit.wallet_doc)
    /\ unit.response.kind = "dict"
    /\ "updated_at" \in DOMAIN unit.response.items[1]

\* ---------------------------------------------------------------- C32
\* the calls of the try block that move or sell the bought tokens: the
\* withdrawal from the buy venue, the transfer to the sell venue, the
\* deposit-credit wait of the sell venue and the sell order
TokenCalls ==
    {i \in DOMAIN FullPlan :
        \/ FullPlan[i].kind = "withdraw" /\ FullPlan[i].side = "buy"
        \/ FullPlan[i].kind \in {"send", "deposit", "order"} /\ FullPlan[i].side = "sell"}

BuyOrderReturned(e) == loc[e].variant = "full" /\ loc[e].buy_order.id # "none"

\* C32: in the full-transfer variant the quantity recorded at the buy order is
\* the venue's filled value, or the requested token amount when the venue
\* omits it, and the amounts withdrawn from the buy venue, transferred to the
\* sell venue, expected by the deposit-credit wait of the sell venue and sold
\* are all that quantity; none of these calls is made before the buy order
\* has returned.
C32_FilledQuantity ==
    \A e \in Execs :
        loc[e].variant = "full" =>
            /\ BuyOrderReturned(e) =>
                  loc[e].actual_token_amount
                     = IF "filled" \in DOMAIN loc[e].buy_order THEN loc[e].buy_order.filled
                       ELSE Units(req[e].usdt_amount)
            /\ \A u \in obs[e].amounts :
                  u.ip \in TokenCalls =>
                     (BuyOrderReturned(e) /\ u.amount = loc[e].actual_token_amount)

\* the venue filled less than was requested, and the four token calls have
\* been made
C32_Witness ==
    \E e \in Execs :
        /\ BuyOrderReturned(e)
        /\ "filled" \in DOMAIN loc[e].buy_order
        /\ loc[e].actual_token_amount # Units(req[e].usdt_amount)
        /\ TokenCalls \subseteq obs[e].callOps
        /\ Cardinality({u \in obs[e].amounts : u.ip \in TokenCalls}) = 4

\* ---------------------------------------------------------------- C33
\* the positions of a handler inside each variant, and the journal steps each
\* variant writes
VariantPcs ==
    [simulated |-> {"simulated"},
     full |-> {"full", "profitability", "run", "full_done", "full_except"},
     simplified |-> {"simplified", "simplified_buy", "simplified_sell"}]

AfterVariant == {"return", "completed", "except", "raise", "done"}

WrittenBy(variant, en, names) ==
    CASE variant = "simulated" -> en.step \in Range(SimulatedSteps) /\ ~en.is_live
      [] variant = "simplified" ->
            en.step \in {"price_check", "buy_order", "sell_order", "completed"} /\ en.is_live
      [] OTHER -> (StepOfEntry(en, names) # 0 \/ en.step = "failed") /\ en.is_live

\* the variant the claim names for a mode and a wallet configuration
StatedVariant(is_live, has_wallet) ==
    CASE ~is_live -> "simulated"
      [] is_live /\ has_wallet -> "full"
      [] OTHER -> "simplified"

\* C33: the variant of an execution is a function of the mode and of the
\* wallet configuration: simulated when the deployment is not live, full
\* transfer when it is live and a wallet address is configured, simplified
\* when it is live without one; the handler stands in no other variant, and
\* every journal entry and gateway call of the execution is of that variant.
C33_VariantSelection ==
    \A e \in Execs :
        /\ loc[e].variant = "none" => (pc[e] \in {"idle", "dispatch", "done"} /\ journal[e] = <<>>)
        /\ loc[e].variant # "none" =>
              /\ loc[e].variant = StatedVariant(settings.is_live_mode, wallet)
              /\ pc[e] \in VariantPcs[loc[e].variant] \cup AfterVariant
              /\ \A n \in DOMAIN journal[e] :
                    WrittenBy(loc[e].variant, journal[e][n], StepNames(Opp(e)))
              /\ loc[e].variant = "simulated" => ~obs[e].touched
              /\ loc[e].variant # "full" => (obs[e].callOps = {} /\ loc[e].ip = 0)

\* a live execution without a wallet has bought and sold in the simplified variant
C33_Witness ==
    \E e \in Execs :
        /\ settings.is_live_mode /\ ~wallet
        /\ loc[e].variant = "simplified"
        /\ pc[e] = "return"
        /\ Len(journal[e]) = 4

\* ---------------------------------------------------------------- C34
\* the journal j holds an entry for step `step` with status st
Journaled(j, step, st) == \E n \in DOMAIN j : j[n].step = step /\ j[n].status = st

\* C34: in the simplified variant the price and slippage check comes first,
\* then the buy order, then the sell order: an order is placed only after the
\* check has passed, the sell order only after the buy order has returned, no
\* sell order is ever placed after a failed buy order, and after a failed sell
\* order that follows a successful buy no further order is placed and the
\* failure handling of execute marks the opportunity failed.
C34_SimplifiedOrder ==
    [][\A e \in Execs :
          loc'[e].variant = "simplified" =>
             LET j == journal'[e]
                 orders == obs'[e].mutations
             IN /\ orders \in 0..2
                /\ orders >= 1 => (j # <<>> /\ j[1].step = "price_check"
                                            /\ j[1].status = "completed")
                /\ orders = 2 => (Journaled(j, "buy_order", "completed")
                                  /\ ~Journaled(j, "buy_order", "failed"))
                /\ Journaled(j, "buy_order", "failed") =>
                      (orders = 1 /\ pc'[e] \in {"except", "raise", "done"})
                /\ Journaled(j, "sell_order", "failed") =>
                      /\ orders = 2
                      /\ pc'[e] \in {"except", "raise", "done"}
                      /\ (pc[e] = "except" /\ pc'[e] = "raise")
                            => status'[req[e].opportunity_id] = "failed"
                /\ pc'[e] = "return" =>
                      [n \in DOMAIN j |-> <<j[n].step, j[n].status>>]
                         = <<<<"price_check", "completed">>, <<"buy_order", "completed">>,
                             <<"sell_order", "completed">>, <<"completed", "completed">>>>]_vars

\* the buy order was filled, the sell order failed, and execute has returned
\* the error with the opportunity marked failed
C34_Witness ==
    \E e \in Execs :
        /\ loc[e].variant = "simplified"
        /\ Journaled(journal[e], "buy_order", "completed")
        /\ Journaled(journal[e], "sell_order", "failed")
        /\ obs[e].mutations = 2
        /\ pc[e] = "done" /\ result[e].code = 500
        /\ status[req[e].opportunity_id] = "failed"

\* ---------------------------------------------------------------- C35
IsDepositWait == unit.fn = "wait_for_deposit_credit"
PollInterval == IF IsConfirmationWait THEN CONFIRMATION_POLL ELSE DEPOSIT_POLL

\* C35: an error raised by a gateway query never ends the deposit-credit wait
\* or the confirmation wait: after a poll that raised, the waiter has slept
\* one poll interval and stands before its next pass, and after a failed
\* initial balance fetch the deposit waiter goes on to its first poll; a wait
\* ends only with success, on a poll that did not raise, or with the timeout
\* error once the ceiling is reached.
C35_PollErrorsRetried ==
    [][((IsConfirmationWait \/ IsDepositWait) /\ unit' # unit) =>
          /\ unit.at = "begin" => (unit'.at = "poll" /\ unit'.elapsed = 0)
          /\ (unit.at = "poll" /\ within(unit.elapsed, Ceiling) /\ unit'.seen.raised)
                => /\ unit'.seen.at_elapsed = unit.elapsed
                   /\ unit'.at = "poll"
                   /\ unit'.out = <<>>
                   /\ unit'.elapsed >= unit.elapsed + PollInterval
          /\ unit'.at = "returned" => (~unit'.seen.raised /\ SuccessSeen')
          /\ unit'.at = "raised" => (unit'.out = TimeoutText /\ unit.elapsed >= Ceiling)
          /\ unit'.at \in {"poll", "returned", "raised"}]_vars

\* the second poll of the deposit waiter raised, and the waiter has slept 30 s
\* and stands before its third poll
C35_Witness ==
    /\ IsDepositWait
    /\ unit.at = "poll"
    /\ unit.seen.at_elapsed = DEPOSIT_POLL
    /\ unit.seen.raised
    /\ unit.elapsed = 2 * DEPOSIT_POLL

\* ---------------------------------------------------------------- C36
\* handler e takes a step that sends a notification
Notifies(e) == obs'[e].notified = obs[e].notified + 1

\* C36: a notification that fails, by a transport error or by a response
\* other than success, changes nothing: every step of a handler that sends a
\* started, completed or failed notification leads to the same result of
\* execute, the same status of the opportunity, the same journal and the same
\* continuation of the handler for every outcome of the send, and no handler
\* ever returns the error of a notification.
C36_NotificationsSwallowed ==
    [][\A e \in Execs :
          /\ Notifies(e) =>
                \A outcome \in TransportOutcomes :
                   \/ notify_trade_started(e, outcome)
                   \/ profitability_check_sending(e, outcome)
                   \/ execute_full_completed_sending(e, outcome)
                   \/ execute_full_except_sending(e, outcome)
                   \/ notify_trade_completed(e, outcome)
                   \/ notify_error(e, outcome)
          /\ result'[e] # InternalServerError
          /\ \A outcome \in TransportOutcomes : loc'[e].exc # <<outcome>>]_vars

\* a full-transfer execution has sent its four notifications and returned
\* its result
C36_Witness ==
    \E e \in Execs :
        /\ settings.telegram
        /\ loc[e].variant = "full"
        /\ obs[e].notified = 4
        /\ pc[e] = "done"
        /\ result[e].kind = "ok"

\* ---------------------------------------------------------------- C37
\* C37: a cached connection that a health check found without loaded markets
\* is not returned to the caller that found it so, and once it is no longer
\* the connection under the key it has been closed: it is closed and removed
\* before or when its replacement is stored.
C37_InvalidEvicted ==
    IsCache =>
        /\ \A c \in Callers :
              (unit.callers[c].at = "returned" /\ unit.callers[c].out \in unit.detected)
                  => unit.callers[c].out = unit.callers[c].instance
        /\ \A i \in unit.detected : unit.exchange_instances = i \/ i \in unit.closed

\* ---------------------------------------------------------------- C38
\* the calls of the saga that run under the retry combinator and change
\* something at a venue
RetriedMutations == {"order", "withdraw"}
\* this step of handler e invoked a mutation
Invokes(e) == obs'[e].mutations > obs[e].mutations

\* C38: in a full-transfer execution every step invokes at most one mutation
\* and the saga never goes back to an earlier call; an invocation of a buy
\* order, a sell order or a withdrawal submission is one of the first
\* MAX_RETRIES of that call, and after it the call has returned and the saga
\* has gone on, or it has raised, or the combinator sleeps before a further
\* attempt that is still one of the first MAX_RETRIES (no sleep follows the
\* final attempt); a wallet transfer is broadcast once, after which the saga
\* has gone on or has raised.
C38_BoundedAttempts ==
    [][\A e \in Execs :
          (pc[e] = "run" /\ loc[e].variant = "full") =>
              LET gone_on == pc'[e] \in {"run", "full_done"} /\ loc'[e].ip = loc[e].ip + 1
                  raised == pc'[e] = "full_except"
                  slept == /\ pc'[e] = "run"
                           /\ loc'[e].ip = loc[e].ip
                           /\ loc'[e].attempt = loc[e].attempt + 1
              IN /\ obs'[e].mutations <= obs[e].mutations + 1
                 /\ loc'[e].ip >= loc[e].ip
                 /\ (Invokes(e) /\ Op(e).kind \in RetriedMutations) =>
                       /\ loc[e].attempt + 1 <= MAX_RETRIES
                       /\ gone_on \/ raised \/ (slept /\ loc'[e].attempt + 1 <= MAX_RETRIES)
                 /\ (Invokes(e) /\ Op(e).kind \notin RetriedMutations) =>
                       /\ Op(e).kind = "send"
                       /\ loc[e].attempt = 0
                       /\ gone_on \/ raised]_vars

\* the buy order has returned at its third invocation, after the one
\* broadcast that funded the buy venue: four mutations, and the saga stands
\* before the withdrawal from the buy venue
C38_Witness ==
    \E e \in Execs :
        /\ pc[e] = "run" /\ loc[e].variant = "full"
        /\ Op(e).kind = "withdraw" /\ Op(e).side = "buy"
        /\ loc[e].sub = "begin" /\ loc[e].attempt = 0
        /\ obs[e].mutations = 1 + MAX_RETRIES

\* ---------------------------------------------------------------- C39
\* the first fetch_balance of the deposit-credit waiter raised; first.free is
\* the free balance the venue held at that time
InitialFetchFailed == IsDepositWait /\ unit.first # NotSeen /\ unit.first.raised

\* C39: when the initial balance fetch of the deposit-credit waiter failed,
\* the initial balance is zero, and after every poll the waiter has returned
\* True exactly when that poll read a free balance of at least 99 percent of
\* the expected amount, whatever the free balance was when the wait began.
C39_FailedSnapshot ==
    InitialFetchFailed =>
        /\ unit.initial = 0
        /\ Polled =>
              (unit.at = "returned"
                  <=> (~unit.seen.raised /\ 100 * unit.seen.free >= 99 * unit.expected))
        /\ unit.at = "returned" => unit.out = <<"True">>

\* the initial fetch raised while the venue held 100 units; the first poll
\* read the same 100 units, and the waiter returned True for an expected
\* amount of 100
C39_Witness ==
    /\ InitialFetchFailed
    /\ unit.expected = 100
    /\ unit.first.free = 100
    /\ Polled /\ unit.seen.at_elapsed = 0 /\ ~unit.seen.raised
    /\ unit.seen.free = unit.first.free
    /\ unit.at = "returned"

\* ---------------------------------------------------------------- C40
\* handler e runs a live variant whose setup did not get the wallet record, a
\* venue's connection or the token record
SetupFailed(e) ==
    /\ loc[e].variant \in LiveVariants
    /\ loc[e].setup.looked
    /\ ~(loc[e].setup.wallet /\ loc[e].setup.buy_exchange
           /\ loc[e].setup.sell_exchange /\ loc[e].setup.token_doc)

====
